---- MODULE Spec2Model ----
(***************************************************************************)
(* The playback engine of src/src/core/AudioEngine.cpp as a state machine: *)
(* one caller thread issuing facade calls (Initialize, LoadFile, Play,     *)
(* Pause, Stop, Seek, destruction), the playback thread created by Play(), *)
(* and the waveOut device the playback thread drives.  Every access to a   *)
(* std::atomic and every blocking call is a step of its own, so that the   *)
(* interleavings of the two threads are the ones the program has.          *)
(*                                                                         *)
(* The source has two playback-thread bodies, selected by _WIN32 (the      *)
(* waveOut body, lines 464-528, and the simulated loop, lines 529-545).    *)
(* The build is fixed in the initial state (win32) and never changes.      *)
(* Impl declares WAVEFORMATEX, HWAVEOUT and WAVEHDR members outside any    *)
(* #ifdef (lines 40-42), so those fields exist in both builds; in the      *)
(* simulated build nothing ever opens the device.                          *)
(***************************************************************************)
EXTENDS Integers, Sequences, FiniteSets, TLC

(***************************************************************************)
(* Bounds of the model.                                                    *)
(***************************************************************************)
\* Iterations of the simulated playback loop that are modelled.  The source
\* runs 50 iterations of 100 ms (line 532); the loop is scaled down, every
\* iteration doing what the source's iteration does.
SimIterations == 3

\* Seek(1 hour) is the largest accepted request (line 652).
MaxSeekSeconds == 3600

(***************************************************************************)
(* Inputs.  A seek request is a rational number of seconds <<num, den>>.   *)
(***************************************************************************)
SeekInputs == { <<0 - 1, 1>>, <<0, 1>>, <<1, 2>>, <<1, 1>>, <<2, 1>>,
                <<MaxSeekSeconds, 1>>, <<MaxSeekSeconds + 1, 1>> }

NoArg == <<0, 1>>

\* Six values of SetEQ, for the calls that take none.
NoEQ == <<NoArg, NoArg, NoArg, NoArg, NoArg, NoArg>>

\* The WAV files the caller loads while it plays, pauses and seeks.
Files == { "a.wav", "b.wav" }

\* A path that names no file.
MissingFile == "missing.wav"

\* Further WAV files, laid out in the ways RIFF allows: stereo; a LIST
\* chunk between "fmt " and "data"; a "fmt " chunk of 18 bytes (cbSize 0);
\* a JUNK chunk before "fmt "; a LIST chunk after "data".
LayoutFiles == { "stereo.wav", "list.wav", "stereo_list.wav", "fmt18.wav",
                 "junk.wav", "tail.wav" }

WavFiles == Files \cup LayoutFiles

\* .wav files that are not well-formed PCM files: ten bytes without the
\* "RIFF" magic; two bytes; an empty file; a complete PCM layout under the
\* magic "RIFX"; a "fmt " chunk that declares no channels; one that
\* declares a sample rate of 0; a LIST chunk between "fmt " and "data"
\* whose size field holds FF FF FF F8.
OddWavFiles == { "noriff.wav", "tiny.wav", "empty.wav", "rifx.wav",
                 "zeroch.wav", "zerorate.wav", "loop.wav" }

\* Files of the extensions line 201 names next to wav and flac, and of an
\* extension it does not name.
OtherFiles == { "song.mp3", "song.ogg", "song.m4a", "notes.txt" }

\* FLAC files: streams of 16, 24, 8 and 32 bits per sample, and a file
\* libFLAC cannot decode.
FlacFiles == { "s16.flac", "s24.flac", "s8.flac", "s32.flac", "bad.flac" }

AllFiles == WavFiles \cup OddWavFiles \cup OtherFiles \cup FlacFiles

\* Lines 198-199: the text after the last "." of the path, in lower case.
Extension(f) ==
    CASE f \in WavFiles \cup OddWavFiles \cup {MissingFile} -> "wav"
      [] f \in FlacFiles -> "flac"
      [] f = "song.mp3"  -> "mp3"
      [] f = "song.ogg"  -> "ogg"
      [] f = "song.m4a"  -> "m4a"
      [] f = "notes.txt" -> "txt"

\* Line 201: the extensions LoadFile knows.
KnownExtensions == { "wav", "mp3", "flac", "ogg", "m4a" }

\* The PCM payload of each file's data chunk, byte by byte.
FileData(f) ==
    CASE f = "a.wav" -> <<1, 0, 0, 0, 255, 255>>
      [] f = "b.wav" -> <<128, 130>>
      [] f \in {"stereo.wav", "stereo_list.wav"} -> <<1, 0, 2, 0, 255, 255, 254, 255>>
      [] OTHER -> <<3, 0, 253, 255>>

\* What the "fmt " chunk and the size field of the data chunk of each file
\* hold.
FileHeader(f) ==
    CASE f = "a.wav" ->
            [numChannels |-> 1, sampleRate |-> 1, bitsPerSample |-> 16, dataSize |-> 6]
      [] f = "b.wav" ->
            [numChannels |-> 1, sampleRate |-> 2, bitsPerSample |-> 8, dataSize |-> 2]
      [] f \in {"stereo.wav", "stereo_list.wav"} ->
            [numChannels |-> 2, sampleRate |-> 8000, bitsPerSample |-> 16, dataSize |-> 8]
      [] f = "zeroch.wav" ->
            [numChannels |-> 0, sampleRate |-> 8000, bitsPerSample |-> 16, dataSize |-> 4]
      [] f = "zerorate.wav" ->
            [numChannels |-> 1, sampleRate |-> 0, bitsPerSample |-> 16, dataSize |-> 4]
      [] OTHER ->
            [numChannels |-> 1, sampleRate |-> 8000, bitsPerSample |-> 16, dataSize |-> 4]

\* The processor handed to Initialize: none, one whose IsAvailable() is
\* false, one whose IsAvailable() is true.
Processors == { "null", "unavailable", "available" }

NoFormat == [nChannels |-> 0, nSamplesPerSec |-> 0, wBitsPerSample |-> 0,
             nBlockAlign |-> 0, nAvgBytesPerSec |-> 0]

\* waveFormat as LoadFile fills it from a WAV header (lines 319-325).
WaveFormatOf(h) ==
    LET blockAlign == (h.numChannels * h.bitsPerSample) \div 8
    IN  [nChannels |-> h.numChannels, nSamplesPerSec |-> h.sampleRate,
         wBitsPerSample |-> h.bitsPerSample, nBlockAlign |-> blockAlign,
         nAvgBytesPerSec |-> h.sampleRate * blockAlign]

(***************************************************************************)
(* Files as bytes.  A file is a sequence of bytes 0..255; offsets count    *)
(* from 0 as in the source.                                                *)
(***************************************************************************)
\* The four-character codes "RIFF", "WAVE", "fmt ", "data", "LIST", "JUNK".
IdRIFF == <<82, 73, 70, 70>>
IdWAVE == <<87, 65, 86, 69>>
IdFmt  == <<102, 109, 116, 32>>
IdData == <<100, 97, 116, 97>>
IdLIST == <<76, 73, 83, 84>>
IdJUNK == <<74, 85, 78, 75>>

\* Little-endian encodings of a non-negative 16-bit and 32-bit value.
LE16(n) == <<n % 256, (n \div 256) % 256>>
LE32(n) == <<n % 256, (n \div 256) % 256, (n \div 65536) % 256, (n \div 16777216) % 256>>

\* A RIFF chunk: id, size, payload.
Chunk(id, payload) == id \o LE32(Len(payload)) \o payload

\* The 16 bytes of a PCM "fmt " chunk.
FmtPayload(h) ==
    LET blockAlign == (h.numChannels * h.bitsPerSample) \div 8
    IN  LE16(1) \o LE16(h.numChannels) \o LE32(h.sampleRate)
        \o LE32(h.sampleRate * blockAlign) \o LE16(blockAlign) \o LE16(h.bitsPerSample)

RiffFile(chunks) == IdRIFF \o LE32(4 + Len(chunks)) \o IdWAVE \o chunks

\* The bytes of one file, by its layout.
FileLayout(f) ==
    LET fmtChunk  == Chunk(IdFmt, FmtPayload(FileHeader(f)))
        fmt18     == Chunk(IdFmt, FmtPayload(FileHeader(f)) \o LE16(0))
        dataChunk == Chunk(IdData, FileData(f))
        listChunk == Chunk(IdLIST, <<73, 78, 70, 79>>)
        junkChunk == Chunk(IdJUNK, <<0, 0, 0, 0>>)
    IN  CASE f \in {"list.wav", "stereo_list.wav"} ->
                RiffFile(fmtChunk \o listChunk \o dataChunk)
          [] f = "fmt18.wav" -> RiffFile(fmt18 \o dataChunk)
          [] f = "junk.wav"  -> RiffFile(junkChunk \o fmtChunk \o dataChunk)
          [] f = "tail.wav"  -> RiffFile(fmtChunk \o dataChunk \o listChunk)
          [] f = "noriff.wav" -> <<0, 1, 2, 3, 4, 5, 6, 7, 8, 9>>
          [] f = "tiny.wav"  -> <<120, 121>>
          [] f = "empty.wav" -> <<>>
          [] f = "rifx.wav"  ->
                <<82, 73, 70, 88>> \o LE32(4 + Len(fmtChunk \o dataChunk)) \o IdWAVE
                \o fmtChunk \o dataChunk
          [] f = "loop.wav"  ->
                RiffFile(fmtChunk \o IdLIST \o <<248, 255, 255, 255>> \o dataChunk)
          [] f \in OtherFiles -> <<73, 68, 51, 3>>
          [] f \in FlacFiles -> <<102, 76, 97, 67>>
          [] OTHER           -> RiffFile(fmtChunk \o dataChunk)

\* The bytes of each file on disk.
DiskImage == [f \in AllFiles |-> FileLayout(f)]

FileBytes(f) == DiskImage[f]

FileExists(f) == f # MissingFile

\* wavFile.read into a short and into an int (lines 270-286, 298): two's
\* complement, little-endian.
ReadShort(bytes, off) ==
    LET v == bytes[off + 1] + 256 * bytes[off + 2]
    IN  IF v >= 32768 THEN v - 65536 ELSE v

ReadInt(bytes, off) ==
    LET top == bytes[off + 4]
    IN  bytes[off + 1] + 256 * bytes[off + 2] + 65536 * bytes[off + 3]
        + 16777216 * (IF top >= 128 THEN top - 256 ELSE top)

\* Chunk headers the walk of lines 294-305 reads before it gives up in the
\* model ("walk" below).
MaxChunks == 4

\* Line 304, after the reads of lines 295 and 298 at cursor:
\* seekg(chunkSize, std::ios::cur) with the size read into an int.
SkipChunk(bytes, cursor) == cursor + 8 + ReadInt(bytes, cursor + 4)

\* Lines 292-305: from cursor, read a 4-byte id and a 4-byte size; stop at
\* "data"; else seek by the size and go on.  The walk ends without
\* a data chunk when the id cannot be read (the cursor is at or past the
\* end of the file, or before its start).  A file that ends inside a
\* chunk's size field is not among the files modelled ("truncated").
RECURSIVE FindDataChunk(_, _, _)
FindDataChunk(bytes, cursor, fuel) ==
    IF fuel = 0
    THEN [kind |-> "walking"]
    ELSE IF cursor < 0 \/ cursor + 4 > Len(bytes)
    THEN [kind |-> "no_data"]
    ELSE IF cursor + 8 > Len(bytes)
    THEN [kind |-> "truncated"]
    ELSE IF SubSeq(bytes, cursor + 1, cursor + 4) = IdData
    THEN [kind |-> "ok", dataStart |-> cursor + 8, dataSize |-> ReadInt(bytes, cursor + 4)]
    ELSE FindDataChunk(bytes, SkipChunk(bytes, cursor), fuel - 1)

\* The parse without the test of line 261.
ParseWav_NoMagicTest(bytes) ==
    IF Len(bytes) < 36
    THEN [kind |-> "short_header"]
    ELSE IF ReadShort(bytes, 20) # 1
    THEN [kind |-> "not_pcm"]
    ELSE LET walk == FindDataChunk(bytes, 36, MaxChunks)
         IN  IF walk.kind # "ok"
             THEN walk
             ELSE [kind |-> "ok",
                   numChannels |-> ReadShort(bytes, 22),
                   sampleRate |-> ReadInt(bytes, 24),
                   bitsPerSample |-> ReadShort(bytes, 34),
                   dataStart |-> walk.dataStart,
                   dataSize |-> walk.dataSize]

\* Lines 258-311: the "RIFF" test, the format fields at the fixed offsets
\* 20, 22, 24 and 34, and the walk for the data chunk from offset 36.
\* A file shorter than 36 bytes makes one of the reads of lines 260-286
\* fail.  The variable read into is then indeterminate, but the stream's
\* failbit stays set from there on: the seeks that follow do nothing, the
\* loop of line 294 is not entered, and LoadFile returns false at line 264,
\* 275 or 310 whatever the indeterminate values are ("short_header").
ParseWav(bytes) ==
    IF Len(bytes) >= 4 /\ SubSeq(bytes, 1, 4) # IdRIFF
    THEN [kind |-> "not_riff"]
    ELSE IF Len(bytes) < 36
    THEN [kind |-> "short_header"]
    ELSE IF ReadShort(bytes, 20) # 1
    THEN [kind |-> "not_pcm"]
    ELSE LET walk == FindDataChunk(bytes, 36, MaxChunks)
         IN  IF walk.kind # "ok"
             THEN walk
             ELSE [kind |-> "ok",
                   numChannels |-> ReadShort(bytes, 22),
                   sampleRate |-> ReadInt(bytes, 24),
                   bitsPerSample |-> ReadShort(bytes, 34),
                   dataStart |-> walk.dataStart,
                   dataSize |-> walk.dataSize]

\* The outcome of lines 258-311 on each file on disk.
ParsedImage == [f \in WavFiles \cup OddWavFiles |-> ParseWav(DiskImage[f])]

\* Lines 314-315: audioData.resize(chunkSize) keeps the bytes the vector
\* held and zero-fills what it adds; wavFile.read then overwrites as many
\* bytes as the file still has.
ReadData(bytes, start, size, old) ==
    [i \in 1..size |->
        IF start + i <= Len(bytes) THEN bytes[start + i]
        ELSE IF i <= Len(old) THEN old[i]
        ELSE 0]

\* Lines 931-974: the file SaveFile writes.
SavedWav(format, data) ==
    IdRIFF \o LE32(36 + Len(data)) \o IdWAVE
    \o IdFmt \o LE32(16) \o LE16(1) \o LE16(format.nChannels)
    \o LE32(format.nSamplesPerSec) \o LE32(format.nAvgBytesPerSec)
    \o LE16(format.nBlockAlign) \o LE16(format.wBitsPerSample)
    \o IdData \o LE32(Len(data)) \o data

(***************************************************************************)
(* The sample conversion of SetTargetBitrate (lines 829-896).              *)
(***************************************************************************)
\* The number of binary digits of n >= 0.
RECURSIVE BitLength(_)
BitLength(n) == IF n = 0 THEN 0 ELSE 1 + BitLength(n \div 2)

\* The float nearest to p / 32768, again as a multiple of 1 / 32768: a
\* float keeps 24 significant binary digits, rounding to nearest, ties to
\* even (the product of line 890).
FloatRound(p) ==
    LET a == IF p < 0 THEN 0 - p ELSE p
        b == BitLength(a)
    IN  IF b <= 24
        THEN p
        ELSE LET unit == 2 ^ (b - 24)
                 q    == a \div unit
                 r    == a % unit
                 up   == 2 * r > unit \/ (2 * r = unit /\ q % 2 = 1)
                 m    == (IF up THEN q + 1 ELSE q) * unit
             IN  IF p < 0 THEN 0 - m ELSE m

\* The conversion with the scale 32768 in both directions.
Requantize_FullScale(s) == s

\* Lines 836 and 887-890 for one 16-bit sample that the processor copied
\* from input to output: s / 32768.0f is exact and within [-1, 1), so the
\* clamp changes nothing; sample * 32767.0f is rounded to a float, and
\* static_cast<short> truncates it toward zero.
Requantize(s) ==
    LET p == FloatRound(s * 32767)
    IN  IF p >= 0 THEN p \div 32768 ELSE 0 - ((0 - p) \div 32768)

\* The two bytes of a short.
ShortBytes(v) == LE16(IF v < 0 THEN v + 65536 ELSE v)

\* Lines 883-891: the buffer after the write-back of n 16-bit samples.
RECURSIVE ConvertedData(_, _)
ConvertedData(data, n) ==
    IF n = 0
    THEN <<>>
    ELSE ConvertedData(data, n - 1) \o ShortBytes(Requantize(ReadShort(data, 2 * (n - 1))))

(***************************************************************************)
(* The tone LoadFile generates for a file of an extension it does not know *)
(* (lines 206-248).                                                        *)
(***************************************************************************)
\* Stereo frames of the tone that are modelled.  The source generates
\* sampleRate * durationSeconds = 88200 frames (line 216); the tone is cut
\* short, every frame holding what the source's frame holds.
ToneFrames == 2

\* Lines 224-228: static_cast<short>(sin(2 pi 440 i / 44100) * 32767) for
\* the first frames.
ToneSample(i) ==
    CASE i = 0 -> 0
      [] i = 1 -> 2052
      [] i = 2 -> 4097
      [] i = 3 -> 6126

\* Lines 220-234: the sample, twice (left and right), frame after frame.
RECURSIVE ToneData(_)
ToneData(n) ==
    IF n = 0
    THEN <<>>
    ELSE ToneData(n - 1) \o ShortBytes(ToneSample(n - 1)) \o ShortBytes(ToneSample(n - 1))

\* Lines 237-243.
ToneFormat ==
    [nChannels |-> 2, nSamplesPerSec |-> 44100, wBitsPerSample |-> 16,
     nBlockAlign |-> 4, nAvgBytesPerSec |-> 176400]

(***************************************************************************)
(* FLAC decoding (lines 75-155 and 332-423, ENABLE_FLAC builds).  libFLAC  *)
(* is not part of the repository: it hands the STREAMINFO block to the     *)
(* metadata callback and then each frame to the write callback, and        *)
(* FLAC__stream_decoder_process_until_end_of_stream returns false when the *)
(* stream cannot be decoded or a write callback asked to abort.            *)
(***************************************************************************)
\* What libFLAC decodes from each file: whether it can, the STREAMINFO
\* block, and the frames; a frame is its blocksize and buffer[channel][sample].
FlacStream(f) ==
    CASE f = "s16.flac" ->
            [decodable |-> TRUE,
             info |-> [sample_rate |-> 8000, channels |-> 1, bits_per_sample |-> 16],
             frames |-> << [blocksize |-> 2, buffer |-> << <<1, 0 - 2>> >>] >>]
      [] f = "s24.flac" ->
            [decodable |-> TRUE,
             info |-> [sample_rate |-> 8000, channels |-> 1, bits_per_sample |-> 24],
             frames |-> << [blocksize |-> 2, buffer |-> << <<70000, 0 - 1>> >>] >>]
      [] f = "s8.flac" ->
            [decodable |-> TRUE,
             info |-> [sample_rate |-> 8000, channels |-> 1, bits_per_sample |-> 8],
             frames |-> << [blocksize |-> 2, buffer |-> << <<5, 0 - 3>> >>] >>]
      [] f = "s32.flac" ->
            [decodable |-> TRUE,
             info |-> [sample_rate |-> 8000, channels |-> 2, bits_per_sample |-> 32],
             frames |-> << [blocksize |-> 1, buffer |-> << <<100000>>, <<0 - 1>> >>],
                           [blocksize |-> 1, buffer |-> << <<7>>, <<0 - 70000>> >>] >>]
      [] OTHER ->
            [decodable |-> FALSE,
             info |-> [sample_rate |-> 0, channels |-> 0, bits_per_sample |-> 0],
             frames |-> << >>]

\* Lines 352-356: the decode state LoadFile starts from.
FlacReset == [sampleRate |-> 0, channels |-> 0, bitsPerSample |-> 0, flacBuffer |-> <<>>,
              written |-> 0, capacity |-> 0, overflow |-> FALSE]

\* Lines 140-150.
flac_metadata_callback(data, info) ==
    [data EXCEPT !.sampleRate = info.sample_rate,
                 !.channels = info.channels,
                 !.bitsPerSample = info.bits_per_sample]

\* The n low bytes of v, least significant first (lines 115-130: the casts
\* to short and to unsigned char keep the low bits).
LowBytes(v, n) == [k \in 1..n |-> (v \div (256 ^ (k - 1))) % 256]

\* Lines 114-131: the bytes the loop body stores through data_ptr for one
\* sample.
PackSample(bits, v) == IF bits = 24 THEN LowBytes(v, 3) ELSE LowBytes(v, 2)

\* Lines 110-133: the bytes stored through data_ptr for the first n
\* (sample, channel) pairs of a frame, samples outermost.
RECURSIVE PackFrame(_, _, _, _)
PackFrame(bits, channels, buffer, n) ==
    IF n = 0
    THEN <<>>
    ELSE LET sample  == (n - 1) \div channels
             channel == (n - 1) % channels
         IN  PackFrame(bits, channels, buffer, n - 1)
             \o PackSample(bits, buffer[channel + 1][sample + 1])

\* Lines 89-138.  frame_data holds total_bytes zero bytes (line 107); the
\* loop stores the packed bytes from its start on.  written counts the
\* bytes the loop stored and capacity is total_bytes, both for the frame
\* handled last; stores beyond total_bytes land outside frame_data
\* (overflow).  The callback always returns
\* FLAC__STREAM_DECODER_WRITE_STATUS_CONTINUE.
flac_write_callback(data, frame) ==
    LET params           == IF data.sampleRate = 0
                            THEN flac_metadata_callback(data, frame.header)
                            ELSE data
        total_samples    == frame.header.blocksize * params.channels
        bytes_per_sample == params.bitsPerSample \div 8
        total_bytes      == total_samples * bytes_per_sample
        packed           == PackFrame(params.bitsPerSample, params.channels, frame.buffer,
                                      total_samples)
        frame_data       == [k \in 1..total_bytes |->
                                IF k <= Len(packed) THEN packed[k] ELSE 0]
    IN  [params EXCEPT !.flacBuffer = params.flacBuffer \o frame_data,
                       !.written = Len(packed),
                       !.capacity = total_bytes,
                       !.overflow = params.overflow \/ Len(packed) > total_bytes]

\* Frame n of a stream as libFLAC presents it: the header repeats the
\* stream's parameters.
FlacFrame(stream, n) ==
    [header |-> [blocksize |-> stream.frames[n].blocksize,
                 sample_rate |-> stream.info.sample_rate,
                 channels |-> stream.info.channels,
                 bits_per_sample |-> stream.info.bits_per_sample],
     buffer |-> stream.frames[n].buffer]

\* Lines 359-376: the callbacks libFLAC makes for the first n frames of a
\* stream.
RECURSIVE DecodeFrames(_, _)
DecodeFrames(stream, n) ==
    IF n = 0
    THEN flac_metadata_callback(FlacReset, stream.info)
    ELSE flac_write_callback(DecodeFrames(stream, n - 1), FlacFrame(stream, n))

\* The decode state after each file was decoded to its end.
DecodedImage == [f \in FlacFiles |-> DecodeFrames(FlacStream(f), Len(FlacStream(f).frames))]

\* Lines 400-405.
FlacFormatOf(data) ==
    LET blockAlign == (data.channels * data.bitsPerSample) \div 8
    IN  [nChannels |-> data.channels, nSamplesPerSec |-> data.sampleRate,
         wBitsPerSample |-> data.bitsPerSample, nBlockAlign |-> blockAlign,
         nAvgBytesPerSec |-> data.sampleRate * blockAlign]

VARIABLES
    win32,             \* the build: TRUE for _WIN32
    enableFlac,        \* the build: TRUE for ENABLE_FLAC
    decoders,          \* DecoderFactory::Impl::decoders: the pairs <<format, factory>> of the map
    decoderOp,         \* the function of DecoderFactory called last ("none" before the first call)
    decoderPath,       \* the filePath of the last CreateDecoder
    decoder,           \* what the last CreateDecoder returned: "nullptr", or the factory that built the decoder
    command,           \* the command CommandLineInterface::ExecuteCommand is handling ("none": the caller uses the facade directly)
    cliRet,            \* what ExecuteCommand returned: "pending", "true", "false"
    initialized,       \* Impl::initialized
    gpuProcessor,      \* Impl::gpuProcessor: "null" or the bound processor
    currentFile,       \* Impl::currentFile ("" when empty)
    audioLoaded,       \* Impl::audioLoaded
    audioData,         \* Impl::audioData, byte by byte
    waveFormat,        \* Impl::waveFormat
    isPlaying,         \* Impl::isPlaying  (atomic)
    isPaused,          \* Impl::isPaused   (atomic)
    shouldStop,        \* Impl::shouldStop (atomic)
    playbackPosition,  \* Impl::playbackPosition, bytes
    playbackTime,      \* Impl::playbackTime, in tenths of a second
    hWaveOut,          \* Impl::hWaveOut: "null", "open" (a live handle), "stale" (closed, not nulled)
    devState,          \* the waveOut device: "closed", "open", "playing" (a buffer was written)
    devPaused,         \* the device is paused (waveOutPause .. waveOutRestart)
    hdrDone,           \* waveHeader.dwFlags & WHDR_DONE
    hdrOffset,         \* waveHeader.lpData - audioData.data()
    tpc,               \* the playback thread: "none" (no thread object), a position, "finished" (ended, joinable)
    iter,              \* the simulated loop's i
    tempThread,        \* the std::thread temporary of line 461 exists
    threadExit,        \* how the thread in playbackThread left its body: "none" (it has not), "open_failed", "prepare_failed", "write_failed", "stopped", "ended"
    crash,             \* "none", or why std::terminate was called
    cpc,               \* the caller: "idle", a position in a facade call, "returned", "destroyed"
    op,                \* the facade call in progress, or the last one
    arg,               \* its seconds argument
    filePath,          \* the filePath argument of LoadFile ("" for the other calls)
    processorArg,      \* the gpuProcessor argument of Initialize ("" for the other calls)
    eqArg,             \* the six arguments of SetEQ
    ret,               \* its result: "pending", "true", "false"
    entryPosition,     \* playbackPosition as the call in progress found it
    wavOut,            \* the bytes the SaveFile in progress has written to its file
    pausedValue,       \* Pause's local pausedValue
    wasPlaying,        \* Stop's local wasPlaying
    wasPaused,         \* Stop's local wasPaused
    pollsSinceSeek     \* poll iterations completed since a Seek moved playbackPosition under the running thread (-1: no such Seek)

build   == <<win32, enableFlac>>
registry == <<decoders, decoderOp, decoderPath, decoder>>
cli     == <<command, cliRet>>
session == <<initialized, gpuProcessor, currentFile, audioLoaded, audioData, waveFormat>>
flags   == <<isPlaying, isPaused, shouldStop>>
posvars == <<playbackPosition, playbackTime>>
device  == <<hWaveOut, devState, devPaused, hdrDone, hdrOffset>>
thread  == <<tpc, iter, tempThread, threadExit>>
locals  == <<pausedValue, wasPlaying, wasPaused>>
caller  == <<cpc, op, arg, filePath, processorArg, eqArg, ret, entryPosition, wavOut>>

\* Impl::audioData.size()
audioSize == Len(audioData)

vars == <<build, registry, cli, session, flags, posvars, device, thread, locals, caller, crash, pollsSinceSeek>>

Alive == crash = "none" /\ cpc # "destroyed"

Joinable == tpc # "none"
Running  == tpc \notin {"none", "finished"}

\* Running playback threads: the one in Impl::playbackThread, and the one
\* the temporary of line 461 has started.
LiveThreads == (IF Running THEN 1 ELSE 0) + (IF tempThread THEN 1 ELSE 0)

\* DecoderFactory::pImpl as line 14 of DecoderFactory.cpp constructs it:
\* an empty map.
NoDecoders ==
    /\ decoders = {}
    /\ decoderOp = "none"
    /\ decoderPath = <<>>
    /\ decoder = "nullptr"

Init ==
    /\ win32 \in BOOLEAN
    /\ enableFlac \in BOOLEAN
    /\ NoDecoders
    /\ command = "none"
    /\ cliRet = "pending"
    /\ initialized = FALSE
    /\ gpuProcessor = "null"
    /\ currentFile = ""
    /\ audioLoaded = FALSE
    /\ audioData = <<>>
    /\ waveFormat = NoFormat
    /\ isPlaying = FALSE
    /\ isPaused = FALSE
    /\ shouldStop = FALSE
    /\ playbackPosition = 0
    /\ playbackTime = 0
    /\ hWaveOut = "null"
    /\ devState = "closed"
    /\ devPaused = FALSE
    /\ hdrDone = FALSE
    /\ hdrOffset = 0
    /\ tpc = "none"
    /\ iter = 0
    /\ tempThread = FALSE
    /\ threadExit = "none"
    /\ crash = "none"
    /\ cpc = "idle"
    /\ op = "none"
    /\ arg = NoArg
    /\ filePath = ""
    /\ processorArg = ""
    /\ eqArg = NoEQ
    /\ ret = "pending"
    /\ entryPosition = 0
    /\ wavOut = <<>>
    /\ pausedValue = FALSE
    /\ wasPlaying = FALSE
    /\ wasPaused = FALSE
    /\ pollsSinceSeek = 0 - 1

(***************************************************************************)
(* The caller enters a facade call.                                        *)
(***************************************************************************)
EnterCall(o, a, f, p, e, pc) ==
    /\ Alive
    /\ cpc = "idle"
    /\ cpc' = pc
    /\ op' = o
    /\ arg' = a
    /\ filePath' = f
    /\ processorArg' = p
    /\ eqArg' = e
    /\ ret' = "pending"
    /\ entryPosition' = playbackPosition
    /\ wavOut' = <<>>
    /\ UNCHANGED <<build, registry, session, flags, posvars, device, thread, locals, crash, pollsSinceSeek>>

\* A call made on the facade directly.
EnterWith(o, a, f, p, e, pc) == EnterCall(o, a, f, p, e, pc) /\ UNCHANGED cli

Enter(o, a, pc) == EnterWith(o, a, "", "", NoEQ, pc)

\* The call in progress returns r.
Return(r) ==
    /\ cpc' = "returned"
    /\ ret' = (IF r THEN "true" ELSE "false")
    /\ UNCHANGED <<op, arg, filePath, processorArg, eqArg, entryPosition>>

\* A return from a call that writes no file.
ReturnNoFile(r) == Return(r) /\ UNCHANGED wavOut

\* A command of the command line interface is being handled.
InCommand == command # "none" /\ cliRet = "pending"

\* The caller takes the result; the call's locals are gone.
Resume ==
    /\ Alive
    /\ cpc = "returned"
    /\ ~InCommand
    /\ cpc' = "idle"
    /\ op' = "none"
    /\ arg' = NoArg
    /\ filePath' = ""
    /\ processorArg' = ""
    /\ eqArg' = NoEQ
    /\ ret' = "pending"
    /\ entryPosition' = 0
    /\ wavOut' = <<>>
    /\ pausedValue' = FALSE
    /\ wasPlaying' = FALSE
    /\ wasPaused' = FALSE
    /\ UNCHANGED <<build, registry, cli, session, flags, posvars, device, thread, crash, pollsSinceSeek>>

Goto(pc) ==
    /\ cpc' = pc
    /\ UNCHANGED <<op, arg, filePath, processorArg, eqArg, ret, entryPosition, wavOut>>

(***************************************************************************)
(* AudioEngine::Initialize (lines 157-173).                                *)
(***************************************************************************)
CallInitialize ==
    \E p \in Processors : EnterWith("Initialize", NoArg, "", p, NoEQ, "initialize")

\* Line 159: gpuProcessor && gpuProcessor->IsAvailable().
ProcessorAccepted(p) == p = "available"

Initialize ==
    /\ Alive
    /\ cpc = "initialize"
    /\ IF ProcessorAccepted(processorArg)
       THEN /\ gpuProcessor' = processorArg
            /\ initialized' = TRUE
            /\ ReturnNoFile(TRUE)
       ELSE /\ UNCHANGED <<gpuProcessor, initialized>>
            /\ ReturnNoFile(FALSE)
    /\ UNCHANGED <<build, registry, cli, currentFile, audioLoaded, audioData, waveFormat, flags,
                   posvars, device, thread, locals, crash, pollsSinceSeek>>

(***************************************************************************)
(* AudioEngine::LoadFile (lines 175-428).  A file that cannot be opened,   *)
(* is empty or does not parse is refused with nothing changed; a file that *)
(* parses replaces audioData, waveFormat and currentFile; a file of an     *)
(* extension line 201 does not name replaces them with a generated tone.   *)
(* playbackPosition is not touched, and a running playback thread is not   *)
(* stopped.                                                                *)
(***************************************************************************)
CallLoadFile ==
    \E f \in Files \cup {MissingFile} : EnterWith("LoadFile", NoArg, f, "", NoEQ, "loadfile")

\* LoadFile returns true with the session holding data and format.
Loaded(data, format) ==
    /\ audioData' = data
    /\ waveFormat' = format
    /\ audioLoaded' = TRUE
    /\ currentFile' = filePath
    /\ ReturnNoFile(TRUE)
    /\ UNCHANGED crash

\* LoadFile returns false.
Refused ==
    /\ UNCHANGED <<audioData, waveFormat, audioLoaded, currentFile, crash>>
    /\ ReturnNoFile(FALSE)

\* Lines 251-331.
LoadWav ==
    LET parse == ParsedImage[filePath]
    IN  /\ parse.kind \notin {"walking", "truncated"}
        /\ IF parse.kind = "ok"
           THEN /\ parse.dataSize >= 0
                /\ Loaded(ReadData(FileBytes(filePath), parse.dataStart, parse.dataSize, audioData),
                          WaveFormatOf(parse))
           ELSE Refused

\* Lines 332-423.  With ENABLE_FLAC, a stream that decodes to its end
\* replaces waveFormat, and audioData too unless nothing was decoded (line
\* 389).  When the write callback stored bytes outside frame_data the
\* behaviour is undefined: the process ends, or the decode goes on with
\* the bytes that fitted.
LoadFlac ==
    IF ~enableFlac \/ ~FlacStream(filePath).decodable
    THEN Refused
    ELSE LET data == DecodedImage[filePath]
         IN  \/ /\ data.overflow
                /\ crash' = "heap_overflow"
                /\ UNCHANGED <<audioData, waveFormat, audioLoaded, currentFile, caller>>
             \/ Loaded(IF data.flacBuffer # <<>> THEN data.flacBuffer ELSE audioData,
                       FlacFormatOf(data))

LoadFile ==
    /\ Alive
    /\ cpc = "loadfile"
    /\ IF ~initialized \/ ~FileExists(filePath) \/ FileBytes(filePath) = <<>>
       THEN Refused
       ELSE IF Extension(filePath) \notin KnownExtensions
       THEN Loaded(ToneData(ToneFrames), ToneFormat)
       ELSE IF Extension(filePath) = "wav"
       THEN LoadWav
       ELSE IF Extension(filePath) = "flac"
       THEN LoadFlac
       ELSE Refused
    /\ UNCHANGED <<build, registry, cli, initialized, gpuProcessor, flags, posvars, device, thread,
                   locals, pollsSinceSeek>>

(***************************************************************************)
(* AudioEngine::Play, the caller's side (lines 430-461 and 552-555).       *)
(***************************************************************************)
CallPlay == Enter("Play", NoArg, "play_check")

\* Lines 431-448: the three refusals, then the read of isPlaying.
PlayCheck ==
    /\ Alive
    /\ cpc = "play_check"
    /\ IF ~initialized \/ currentFile = "" \/ ~audioLoaded
       THEN ReturnNoFile(FALSE)
       ELSE IF isPlaying THEN Goto("play_signal") ELSE Goto("play_clear")
    /\ UNCHANGED <<build, registry, cli, session, flags, posvars, device, thread, locals, crash, pollsSinceSeek>>

\* Line 451: shouldStop = true.
PlaySignal ==
    /\ Alive
    /\ cpc = "play_signal"
    /\ shouldStop' = TRUE
    /\ Goto("play_join")
    /\ UNCHANGED <<build, registry, cli, session, isPlaying, isPaused, posvars, device, thread, locals,
                   crash, pollsSinceSeek>>

\* playbackThread.join(): blocks until the thread has ended; on a thread
\* that is not joinable it throws std::system_error, which nothing catches.
Join ==
    IF Joinable
    THEN /\ tpc = "finished"
         /\ tpc' = "none"
         /\ threadExit' = "none"
         /\ UNCHANGED <<iter, tempThread, crash>>
    ELSE /\ crash' = "join_not_joinable"
         /\ UNCHANGED thread

\* if (playbackThread.joinable()) playbackThread.join();
JoinThread ==
    IF Joinable
    THEN Join
    ELSE UNCHANGED <<thread, crash>>

\* Lines 454-456.
PlayJoin ==
    /\ Alive
    /\ cpc = "play_join"
    /\ JoinThread
    /\ Goto("play_clear")
    /\ UNCHANGED <<build, registry, cli, session, flags, posvars, device, locals, pollsSinceSeek>>

\* Line 460: shouldStop = false.
PlayClear ==
    /\ Alive
    /\ cpc = "play_clear"
    /\ shouldStop' = FALSE
    /\ Goto("play_spawn")
    /\ UNCHANGED <<build, registry, cli, session, isPlaying, isPaused, posvars, device, thread, locals,
                   crash, pollsSinceSeek>>

\* Line 461, the right-hand side: std::thread(...) starts the new thread.
PlaySpawn ==
    /\ Alive
    /\ cpc = "play_spawn"
    /\ tempThread' = TRUE
    /\ Goto("play_assign")
    /\ UNCHANGED <<build, registry, cli, session, flags, posvars, device, tpc, iter, threadExit, locals,
                   crash, pollsSinceSeek>>

\* Line 461, the move assignment: std::terminate() when playbackThread is
\* still joinable, else the new thread becomes playbackThread.
PlayAssign ==
    /\ Alive
    /\ cpc = "play_assign"
    /\ IF Joinable
       THEN /\ crash' = "assign_joinable"
            /\ UNCHANGED <<thread, caller, pollsSinceSeek>>
       ELSE /\ tpc' = (IF win32 THEN "t_open" ELSE "s_loop")
            /\ iter' = 0
            /\ tempThread' = FALSE
            /\ threadExit' = "none"
            /\ pollsSinceSeek' = 0 - 1
            /\ Goto("play_store")
            /\ UNCHANGED crash
    /\ UNCHANGED <<build, registry, cli, session, flags, posvars, device, locals>>

\* Lines 552-554: isPlaying = true; return true.
PlayStore ==
    /\ Alive
    /\ cpc = "play_store"
    /\ isPlaying' = TRUE
    /\ ReturnNoFile(TRUE)
    /\ UNCHANGED <<build, registry, cli, session, isPaused, shouldStop, posvars, device, thread, locals,
                   crash, pollsSinceSeek>>

(***************************************************************************)
(* AudioEngine::Pause (lines 557-595).                                     *)
(***************************************************************************)
CallPause == Enter("Pause", NoArg, "pause_check")

\* Lines 558-562 and 591-594: the refusal, then the read of isPlaying.
PauseCheck ==
    /\ Alive
    /\ cpc = "pause_check"
    /\ IF ~initialized
       THEN ReturnNoFile(FALSE)
       ELSE IF isPlaying THEN Goto("pause_load") ELSE ReturnNoFile(TRUE)
    /\ UNCHANGED <<build, registry, cli, session, flags, posvars, device, thread, locals, crash, pollsSinceSeek>>

\* Line 563: pausedValue = isPaused.load().
PauseLoad ==
    /\ Alive
    /\ cpc = "pause_load"
    /\ pausedValue' = isPaused
    /\ Goto("pause_store")
    /\ UNCHANGED <<build, registry, cli, session, flags, posvars, device, thread, wasPlaying, wasPaused,
                   crash, pollsSinceSeek>>

PauseToggle_AlwaysPause(v) == TRUE

\* The value Pause stores into isPaused.
PauseToggle(v) == ~v

\* Line 564: isPaused.store(!pausedValue).  The simulated build returns
\* from here; the waveOut build goes on to the device.
PauseStore ==
    /\ Alive
    /\ cpc = "pause_store"
    /\ isPaused' = PauseToggle(pausedValue)
    /\ IF win32 THEN Goto("pause_device") ELSE ReturnNoFile(TRUE)
    /\ UNCHANGED <<build, registry, cli, session, isPlaying, shouldStop, posvars, device, thread, locals,
                   crash, pollsSinceSeek>>

\* waveOutPause / waveOutRestart on a handle: they act on a live handle and
\* fail on a closed one.
DevicePauseOk == hWaveOut = "open"

\* Lines 566-590: pause or restart the device when hWaveOut is not null; a
\* failure is only warned about.
PauseDevice ==
    /\ Alive
    /\ cpc = "pause_device"
    /\ IF hWaveOut # "null" /\ DevicePauseOk
       THEN devPaused' = ~pausedValue
       ELSE UNCHANGED devPaused
    /\ ReturnNoFile(TRUE)
    /\ UNCHANGED <<build, registry, cli, session, flags, posvars, hWaveOut, devState, hdrDone, hdrOffset,
                   thread, locals, crash, pollsSinceSeek>>

(***************************************************************************)
(* AudioEngine::Stop (lines 597-639).                                      *)
(***************************************************************************)
CallStop == Enter("Stop", NoArg, "stop_signal")

\* Lines 598-607: the refusal; wasPlaying, wasPaused; shouldStop = true.
StopSignal ==
    /\ Alive
    /\ cpc = "stop_signal"
    /\ IF ~initialized
       THEN /\ ReturnNoFile(FALSE)
            /\ UNCHANGED <<shouldStop, wasPlaying, wasPaused>>
       ELSE /\ wasPlaying' = isPlaying
            /\ wasPaused' = isPaused
            /\ shouldStop' = TRUE
            /\ Goto("stop_join")
    /\ UNCHANGED <<build, registry, cli, session, isPlaying, isPaused, posvars, device, thread, pausedValue,
                   crash, pollsSinceSeek>>

StopJoinThread_Skipped == UNCHANGED <<thread, crash>>

\* Lines 610-613: join the playback thread when it is joinable.
StopJoinThread == JoinThread

StopJoin ==
    /\ Alive
    /\ cpc = "stop_join"
    /\ StopJoinThread
    /\ Goto("stop_reset")
    /\ UNCHANGED <<build, registry, cli, session, flags, posvars, device, locals, pollsSinceSeek>>

StopPosition_Kept(p) == p

\* The position Stop leaves (line 628).
StopPosition(p) == 0

\* Lines 615-638: close the device when hWaveOut is not null, then reset
\* isPlaying, isPaused, playbackPosition, playbackTime and currentFile.
StopReset ==
    /\ Alive
    /\ cpc = "stop_reset"
    /\ IF win32 /\ hWaveOut # "null"
       THEN /\ hWaveOut' = "null"
            /\ IF hWaveOut = "open"
               THEN /\ devState' = "closed"
                    /\ devPaused' = FALSE
                    /\ hdrDone' = (hdrDone \/ devState = "playing")
               ELSE UNCHANGED <<devState, devPaused, hdrDone>>
       ELSE UNCHANGED <<hWaveOut, devState, devPaused, hdrDone>>
    /\ isPlaying' = FALSE
    /\ isPaused' = FALSE
    /\ playbackPosition' = StopPosition(playbackPosition)
    /\ playbackTime' = 0
    /\ currentFile' = ""
    /\ ReturnNoFile(TRUE)
    /\ UNCHANGED <<build, registry, cli, initialized, gpuProcessor, audioLoaded, audioData, waveFormat,
                   shouldStop, hdrOffset, thread, locals, crash, pollsSinceSeek>>

(***************************************************************************)
(* AudioEngine::Seek (lines 641-714).                                      *)
(***************************************************************************)
CallSeek == \E s \in SeekInputs : Enter("Seek", s, "seek_check")

\* seconds < 0.0 and seconds > 3600.0 (lines 647, 652).
SeekOutOfRange(s) == s[1] < 0 \/ s[1] > MaxSeekSeconds * s[2]

\* static_cast<size_t>(seconds * nAvgBytesPerSec) (lines 670, 693).
SeekBytePos(s, avg) == (s[1] * avg) \div s[2]

\* seconds, in the unit of playbackTime.
SeekTime(s) == (s[1] * 10) \div s[2]

\* Lines 668-677: the position and time a Seek stores when nothing plays.
SeekStoppedPosition(s) ==
    IF waveFormat.nSamplesPerSec > 0 /\ waveFormat.nBlockAlign > 0
    THEN IF SeekBytePos(s, waveFormat.nAvgBytesPerSec) < audioSize
         THEN <<SeekBytePos(s, waveFormat.nAvgBytesPerSec), SeekTime(s)>>
         ELSE <<0, 0>>
    ELSE <<playbackPosition, playbackTime>>

\* Lines 642-680: the refusals, the read of isPlaying, and the whole of the
\* not-playing path.
SeekCheck ==
    /\ Alive
    /\ cpc = "seek_check"
    /\ IF ~initialized \/ SeekOutOfRange(arg) \/ ~audioLoaded
       THEN /\ ReturnNoFile(FALSE)
            /\ UNCHANGED posvars
       ELSE IF ~isPlaying
            THEN /\ playbackPosition' = SeekStoppedPosition(arg)[1]
                 /\ playbackTime' = SeekStoppedPosition(arg)[2]
                 /\ ReturnNoFile(TRUE)
            ELSE /\ UNCHANGED posvars
                 /\ IF win32 THEN Goto("seek_device") ELSE ReturnNoFile(TRUE)
    /\ UNCHANGED <<build, registry, cli, session, flags, device, thread, locals, crash, pollsSinceSeek>>

\* Lines 688-713: with a non-null hWaveOut, pause the device, then store
\* the new position when it lies inside the buffer and fail when it does
\* not; with a null hWaveOut, return true.
SeekDevice ==
    /\ Alive
    /\ cpc = "seek_device"
    /\ IF hWaveOut = "null"
       THEN /\ ReturnNoFile(TRUE)
            /\ UNCHANGED <<posvars, devPaused, pollsSinceSeek>>
       ELSE IF ~DevicePauseOk
            THEN /\ ReturnNoFile(FALSE)
                 /\ UNCHANGED <<posvars, devPaused, pollsSinceSeek>>
            ELSE /\ devPaused' = TRUE
                 /\ IF waveFormat.nAvgBytesPerSec > 0
                    THEN IF SeekBytePos(arg, waveFormat.nAvgBytesPerSec) < audioSize
                         THEN /\ playbackPosition' = SeekBytePos(arg, waveFormat.nAvgBytesPerSec)
                              /\ playbackTime' = SeekTime(arg)
                              /\ pollsSinceSeek' = 0
                              /\ ReturnNoFile(TRUE)
                         ELSE /\ ReturnNoFile(FALSE)
                              /\ UNCHANGED <<posvars, pollsSinceSeek>>
                    ELSE /\ ReturnNoFile(TRUE)
                         /\ UNCHANGED <<posvars, pollsSinceSeek>>
    /\ UNCHANGED <<build, registry, cli, session, flags, hWaveOut, devState, hdrDone, hdrOffset, thread,
                   locals, crash>>

(***************************************************************************)
(* AudioEngine::SetEQ (lines 716-771): validation only.  The six values    *)
(* are rationals <<num, den>>.                                             *)
(***************************************************************************)
MIN_FREQ == 20
MAX_FREQ == 20000
MIN_GAIN == 0 - 20
MAX_GAIN == 20
MAX_Q == 10
\* MIN_Q, 0.1 (line 727).
MIN_Q == <<1, 10>>

\* The values of src/tests/test_all.cpp (lines 21-22), and the same with
\* freq1 = 19.9 Hz.
EQInputs ==
    { << <<100, 1>>, <<3, 1>>, <<7, 10>>, <<10000, 1>>, <<0 - 2, 1>>, <<7, 10>> >>,
      << <<199, 10>>, <<3, 1>>, <<7, 10>>, <<10000, 1>>, <<0 - 2, 1>>, <<7, 10>> >> }

\* The six values at the inclusive bounds; a set of values in range, and
\* the same with one value at a time just outside its range; two calls
\* with freq2 = 0, one with freq1 = 19.9 and one with q1 = 0.05.
EQBase == << <<100, 1>>, <<0, 1>>, <<1, 1>>, <<1000, 1>>, <<0, 1>>, <<1, 1>> >>

EQBoundaryInputs ==
    { << <<20, 1>>, <<0 - 20, 1>>, <<1, 10>>, <<20000, 1>>, <<20, 1>>, <<10, 1>> >>,
      << <<20000, 1>>, <<20, 1>>, <<10, 1>>, <<20, 1>>, <<0 - 20, 1>>, <<1, 10>> >>,
      EQBase,
      << <<199, 10>>, <<0, 1>>, <<1, 1>>, <<0, 1>>, <<0, 1>>, <<1, 1>> >>,
      << <<0, 1>>, <<0, 1>>, <<1, 20>>, <<0, 1>>, <<0, 1>>, <<1, 1>> >> }
    \cup { [EQBase EXCEPT ![k] = v] : k \in {1, 4}, v \in { <<199, 10>>, <<200001, 10>> } }
    \cup { [EQBase EXCEPT ![k] = v] : k \in {2, 5}, v \in { <<0 - 201, 10>>, <<201, 10>> } }
    \cup { [EQBase EXCEPT ![k] = v] : k \in {3, 6}, v \in { <<9, 100>>, <<101, 10>> } }

\* lo <= x <= hi for a rational x and integers lo, hi.
Within(x, lo, hi) == lo * x[2] <= x[1] /\ x[1] <= hi * x[2]

\* The six range tests with the bounds excluded.
EQInRange_Exclusive(e) ==
    /\ MIN_FREQ * e[1][2] < e[1][1] /\ e[1][1] < MAX_FREQ * e[1][2]
    /\ MIN_FREQ * e[4][2] < e[4][1] /\ e[4][1] < MAX_FREQ * e[4][2]
    /\ MIN_GAIN * e[2][2] < e[2][1] /\ e[2][1] < MAX_GAIN * e[2][2]
    /\ MIN_GAIN * e[5][2] < e[5][1] /\ e[5][1] < MAX_GAIN * e[5][2]
    /\ MIN_Q[1] * e[3][2] < e[3][1] * MIN_Q[2] /\ e[3][1] < MAX_Q * e[3][2]
    /\ MIN_Q[1] * e[6][2] < e[6][1] * MIN_Q[2] /\ e[6][1] < MAX_Q * e[6][2]

\* Lines 731-758: the six range tests.
EQInRange(e) ==
    /\ Within(e[1], MIN_FREQ, MAX_FREQ)
    /\ Within(e[4], MIN_FREQ, MAX_FREQ)
    /\ Within(e[2], MIN_GAIN, MAX_GAIN)
    /\ Within(e[5], MIN_GAIN, MAX_GAIN)
    /\ MIN_Q[1] * e[3][2] <= e[3][1] * MIN_Q[2] /\ e[3][1] <= MAX_Q * e[3][2]
    /\ MIN_Q[1] * e[6][2] <= e[6][1] * MIN_Q[2] /\ e[6][1] <= MAX_Q * e[6][2]

SetEQRefused_NoInitCheck(e) == ~EQInRange(e)

\* Lines 718-758: SetEQ returns false.
SetEQRefused(e) == ~initialized \/ ~EQInRange(e)

CallSetEQ == \E e \in EQInputs : EnterWith("SetEQ", NoArg, "", "", e, "seteq")

SetEQ ==
    /\ Alive
    /\ cpc = "seteq"
    /\ ReturnNoFile(~SetEQRefused(eqArg))
    /\ UNCHANGED <<build, registry, cli, session, flags, posvars, device, thread, locals, crash, pollsSinceSeek>>

(***************************************************************************)
(* AudioEngine::SetTargetBitrate (lines 786-910).  The processor's         *)
(* ConvertBitrate either fails or, as the three processors of              *)
(* GPUProcessorFactory.cpp do, copies its input to its output.             *)
(***************************************************************************)
\* Lines 807-809.
BytesPerSample ==
    IF waveFormat.wBitsPerSample > 0 THEN waveFormat.wBitsPerSample \div 8 ELSE 2

NumSamples == IF BytesPerSample > 0 THEN audioSize \div BytesPerSample ELSE 0

FailedConversionData_Emptied(data) == <<>>

\* Lines 901-905: the buffer after a ConvertBitrate that returned false.
FailedConversionData(data) == data

CallSetTargetBitrate == Enter("SetTargetBitrate", NoArg, "bitrate")

SetTargetBitrate ==
    /\ Alive
    /\ cpc = "bitrate"
    /\ IF ~initialized \/ audioSize = 0 \/ gpuProcessor = "null" \/ NumSamples = 0
       THEN /\ ReturnNoFile(FALSE)
            /\ UNCHANGED audioData
       ELSE \E success \in BOOLEAN :
               IF success
               THEN /\ audioData' = (IF waveFormat.wBitsPerSample = 16
                                     THEN ConvertedData(audioData, NumSamples)
                                     ELSE audioData)
                    /\ ReturnNoFile(TRUE)
               ELSE /\ audioData' = FailedConversionData(audioData)
                    /\ ReturnNoFile(FALSE)
    /\ UNCHANGED <<build, registry, cli, initialized, gpuProcessor, currentFile, audioLoaded, waveFormat,
                   flags, posvars, device, thread, locals, crash, pollsSinceSeek>>

(***************************************************************************)
(* AudioEngine::SaveFile (lines 912-981).  The output file may fail to     *)
(* open.                                                                   *)
(***************************************************************************)
CallSaveFile == Enter("SaveFile", NoArg, "savefile")

SaveFile ==
    /\ Alive
    /\ cpc = "savefile"
    /\ \E writable \in BOOLEAN :
          IF initialized /\ audioSize > 0 /\ writable
          THEN /\ wavOut' = SavedWav(waveFormat, audioData)
               /\ Return(TRUE)
          ELSE ReturnNoFile(FALSE)
    /\ UNCHANGED <<build, registry, cli, session, flags, posvars, device, thread, locals, crash, pollsSinceSeek>>

(***************************************************************************)
(* AudioEngine::IsFileLoaded, IsPlaying, IsPaused (lines 983-1006).        *)
(***************************************************************************)
Queries == { "IsFileLoaded", "IsPlaying", "IsPaused" }

QueryValue(q) ==
    /\ initialized
    /\ CASE q = "IsFileLoaded" -> currentFile # "" /\ audioLoaded /\ audioSize > 0
         [] q = "IsPlaying"    -> isPlaying
         [] q = "IsPaused"     -> isPaused

CallQuery == \E q \in Queries : Enter(q, NoArg, "query")

Query ==
    /\ Alive
    /\ cpc = "query"
    /\ ReturnNoFile(QueryValue(op))
    /\ UNCHANGED <<build, registry, cli, session, flags, posvars, device, thread, locals, crash, pollsSinceSeek>>

(***************************************************************************)
(* AudioEngine::GetStats (lines 773-784): a text, which one depending on   *)
(* initialized.                                                            *)
(***************************************************************************)
GetStats ==
    /\ Alive
    /\ cpc = "stats"
    /\ cpc' = "returned"
    /\ ret' = (IF initialized THEN "statistics" ELSE "not initialized")
    /\ UNCHANGED <<op, arg, filePath, processorArg, eqArg, entryPosition, wavOut>>
    /\ UNCHANGED <<build, registry, cli, session, flags, posvars, device, thread, locals, crash, pollsSinceSeek>>

(***************************************************************************)
(* CommandLineInterface::ExecuteCommand (src/src/core/                     *)
(* CommandLineInterface.cpp, lines 28-167) and its handlers (lines         *)
(* 195-304), for commands that carry the arguments they need.  The         *)
(* commands play and convert, which make several facade calls in a row,    *)
(* are not modelled.                                                       *)
(***************************************************************************)
\* Commands whose handler calls the engine (lines 222-258, 289-304), and
\* commands whose handler does not (lines 195-220, 134-166).
CallingCommands == { "load", "bitrate", "save", "stats" }
SilentCommands == { "pause", "stop", "seek", "eq", "help", "quit", "unknown" }

\* Lines 43-49, 90-103, 123-133: the handler is entered and calls the
\* engine.
CliCommand ==
    /\ \E c \in CallingCommands :
          /\ command' = c
          /\ CASE c = "load" ->
                    \E f \in Files \cup {MissingFile} :
                        EnterCall("LoadFile", NoArg, f, "", NoEQ, "loadfile")
               [] c = "bitrate" -> EnterCall("SetTargetBitrate", NoArg, "", "", NoEQ, "bitrate")
               [] c = "save"    -> EnterCall("SaveFile", NoArg, "", "", NoEQ, "savefile")
               [] c = "stats"   -> EnterCall("GetStats", NoArg, "", "", NoEQ, "stats")
    /\ cliRet' = "pending"

\* Lines 222-258 and 289-304: the handler returns what the engine returned
\* (HandleStats: true).
CliReturn ==
    /\ Alive
    /\ cpc = "returned"
    /\ InCommand
    /\ cliRet' = (IF command = "stats" THEN "true" ELSE ret)
    /\ cpc' = "idle"
    /\ op' = "none"
    /\ arg' = NoArg
    /\ filePath' = ""
    /\ processorArg' = ""
    /\ eqArg' = NoEQ
    /\ ret' = "pending"
    /\ entryPosition' = 0
    /\ wavOut' = <<>>
    /\ UNCHANGED <<command, build, registry, session, flags, posvars, device, thread, locals, crash,
                   pollsSinceSeek>>

\* Lines 50-55, 56-89 and 195-220: HandlePause, HandleStop, HandleSeek and
\* HandleEQ print a line and return true; lines 134-166: quit and help
\* return true, a word that is no command returns false.
CliSilent ==
    /\ Alive
    /\ cpc = "idle"
    /\ \E c \in SilentCommands :
          /\ command' = c
          /\ cliRet' = (IF c = "unknown" THEN "false" ELSE "true")
    /\ UNCHANGED <<build, registry, session, flags, posvars, device, thread, locals, caller, crash,
                   pollsSinceSeek>>

(***************************************************************************)
(* AudioEngine::~AudioEngine (line 72) is defaulted: it destroys Impl and  *)
(* with it playbackThread (line 50).  ~thread() on a joinable thread calls *)
(* std::terminate(); nothing signals or joins the thread first.            *)
(***************************************************************************)
Destroy ==
    /\ Alive
    /\ cpc = "idle"
    /\ IF Joinable
       THEN /\ crash' = "destroy_joinable"
            /\ UNCHANGED caller
       ELSE /\ cpc' = "destroyed"
            /\ op' = "Destroy"
            /\ UNCHANGED <<arg, filePath, processorArg, eqArg, ret, entryPosition, wavOut, crash>>
    /\ UNCHANGED <<build, registry, cli, session, flags, posvars, device, thread, locals, pollsSinceSeek>>

(***************************************************************************)
(* The playback thread, waveOut build (lines 464-528).                     *)
(***************************************************************************)
\* Lines 466-470: waveOutOpen; on failure the thread returns.
ThreadOpen ==
    /\ Alive
    /\ tpc = "t_open"
    /\ \E ok \in BOOLEAN :
          IF ok
          THEN /\ hWaveOut' = "open"
               /\ devState' = "open"
               /\ devPaused' = FALSE
               /\ tpc' = "t_prepare"
               /\ UNCHANGED threadExit
          ELSE /\ UNCHANGED <<hWaveOut, devState, devPaused>>
               /\ tpc' = "finished"
               /\ threadExit' = "open_failed"
    /\ UNCHANGED <<build, registry, cli, session, flags, posvars, hdrDone, hdrOffset, iter, tempThread, locals, caller, crash, pollsSinceSeek>>

\* Lines 473-484: the header starts at playbackPosition and covers the
\* rest of audioData; waveOutPrepareHeader; on failure the device is
\* closed, hWaveOut keeps the closed handle, and the thread returns.
ThreadPrepare ==
    /\ Alive
    /\ tpc = "t_prepare"
    /\ hdrOffset' = playbackPosition
    /\ hdrDone' = FALSE
    /\ \E ok \in BOOLEAN :
          IF ok
          THEN /\ tpc' = "t_write"
               /\ UNCHANGED <<hWaveOut, devState, devPaused, threadExit>>
          ELSE /\ devState' = "closed"
               /\ devPaused' = FALSE
               /\ hWaveOut' = "stale"
               /\ tpc' = "finished"
               /\ threadExit' = "prepare_failed"
    /\ UNCHANGED <<build, registry, cli, session, flags, posvars, iter, tempThread, locals, caller,
                   crash, pollsSinceSeek>>

\* Lines 487-493: waveOutWrite; on failure the device is closed, hWaveOut
\* keeps the closed handle, and the thread returns.
ThreadWrite ==
    /\ Alive
    /\ tpc = "t_write"
    /\ \E ok \in BOOLEAN :
          IF ok
          THEN /\ devState' = "playing"
               /\ tpc' = "t_loop"
               /\ UNCHANGED <<hWaveOut, devPaused, threadExit>>
          ELSE /\ devState' = "closed"
               /\ devPaused' = FALSE
               /\ hWaveOut' = "stale"
               /\ tpc' = "finished"
               /\ threadExit' = "write_failed"
    /\ UNCHANGED <<build, registry, cli, session, flags, posvars, hdrDone, hdrOffset, iter, tempThread, locals, caller, crash, pollsSinceSeek>>

\* The device consumes the written buffer and sets WHDR_DONE, unless it
\* is paused.
DeviceConsume ==
    /\ Alive
    /\ devState = "playing"
    /\ ~devPaused
    /\ ~hdrDone
    /\ hdrDone' = TRUE
    /\ UNCHANGED <<build, registry, cli, session, flags, posvars, hWaveOut, devState, devPaused, hdrOffset, thread, locals, caller, crash, pollsSinceSeek>>

\* Line 496: while (!(dwFlags & WHDR_DONE)).
ThreadLoop ==
    /\ Alive
    /\ tpc = "t_loop"
    /\ tpc' = (IF hdrDone THEN "t_cleanup" ELSE "t_check_paused")
    /\ UNCHANGED <<build, registry, cli, session, flags, posvars, device, iter, tempThread, threadExit, locals,
                   caller, crash, pollsSinceSeek>>

PollCounted == IF pollsSinceSeek = 0 THEN 1 ELSE pollsSinceSeek

\* Where the poll loop goes when it finds isPaused set (lines 498-502):
\* Sleep(50); continue.
PausedBranch == "t_loop"

\* Lines 498-502: if (isPaused.load()).
ThreadCheckPaused ==
    /\ Alive
    /\ tpc = "t_check_paused"
    /\ IF isPaused
       THEN /\ tpc' = PausedBranch
            /\ pollsSinceSeek' = PollCounted
       ELSE /\ tpc' = "t_check_stop"
            /\ UNCHANGED pollsSinceSeek
    /\ UNCHANGED <<build, registry, cli, session, flags, posvars, device, iter, tempThread, threadExit, locals,
                   caller, crash>>

\* Lines 505-516: if (shouldStop.load()) the device is reset and closed
\* and hWaveOut nulled; else Sleep(10) and the next iteration.
ThreadCheckStop ==
    /\ Alive
    /\ tpc = "t_check_stop"
    /\ IF shouldStop
       THEN /\ hdrDone' = TRUE
            /\ devState' = "closed"
            /\ devPaused' = FALSE
            /\ hWaveOut' = "null"
            /\ tpc' = "t_stop_store"
            /\ UNCHANGED pollsSinceSeek
       ELSE /\ tpc' = "t_loop"
            /\ pollsSinceSeek' = PollCounted
            /\ UNCHANGED <<hdrDone, devState, devPaused, hWaveOut>>
    /\ UNCHANGED <<build, registry, cli, session, flags, posvars, hdrOffset, iter, tempThread, threadExit,
                   locals, caller, crash>>

\* Lines 513-514: isPlaying.store(false); return.
ThreadStopStore ==
    /\ Alive
    /\ tpc = "t_stop_store"
    /\ isPlaying' = FALSE
    /\ tpc' = "finished"
    /\ threadExit' = "stopped"
    /\ UNCHANGED <<build, registry, cli, session, isPaused, shouldStop, posvars, device, iter, tempThread, locals, caller, crash, pollsSinceSeek>>

\* Lines 520-528: after WHDR_DONE the device is closed and hWaveOut nulled
\* only if shouldStop is not set.
ThreadCleanup ==
    /\ Alive
    /\ tpc = "t_cleanup"
    /\ IF ~shouldStop
       THEN /\ devState' = "closed"
            /\ devPaused' = FALSE
            /\ hWaveOut' = "null"
       ELSE UNCHANGED <<devState, devPaused, hWaveOut>>
    /\ tpc' = "t_end_playing"
    /\ UNCHANGED <<build, registry, cli, session, flags, posvars, hdrDone, hdrOffset, iter, tempThread, threadExit, locals, caller, crash, pollsSinceSeek>>

(***************************************************************************)
(* The playback thread, simulated build (lines 530-545).                   *)
(***************************************************************************)
\* Line 532: for (...; i < 50 && !shouldStop; ...).
SimLoop ==
    /\ Alive
    /\ tpc = "s_loop"
    /\ tpc' = (IF iter < SimIterations /\ ~shouldStop THEN "s_body" ELSE "t_end_playing")
    /\ UNCHANGED <<build, registry, cli, session, flags, posvars, device, iter, tempThread, threadExit, locals,
                   caller, crash, pollsSinceSeek>>

\* Lines 533-538: playbackTime advances by 0.1 unless isPaused; the sleep;
\* ++i.
SimBody ==
    /\ Alive
    /\ tpc = "s_body"
    /\ playbackTime' = (IF ~isPaused THEN playbackTime + 1 ELSE playbackTime)
    /\ iter' = iter + 1
    /\ tpc' = "s_loop"
    /\ UNCHANGED <<build, registry, cli, session, flags, playbackPosition, device, tempThread, threadExit,
                   locals, caller, crash, pollsSinceSeek>>

(***************************************************************************)
(* The end of the playback thread, both builds (lines 546-550).            *)
(***************************************************************************)
\* Line 547: isPlaying = false.
ThreadEndPlaying ==
    /\ Alive
    /\ tpc = "t_end_playing"
    /\ isPlaying' = FALSE
    /\ tpc' = "t_end_paused"
    /\ UNCHANGED <<build, registry, cli, session, isPaused, shouldStop, posvars, device, iter, tempThread, threadExit, locals, caller, crash, pollsSinceSeek>>

\* Line 548: isPaused = false.
ThreadEndPaused ==
    /\ Alive
    /\ tpc = "t_end_paused"
    /\ isPaused' = FALSE
    /\ tpc' = "t_end_time"
    /\ UNCHANGED <<build, registry, cli, session, isPlaying, shouldStop, posvars, device, iter, tempThread, threadExit, locals, caller, crash, pollsSinceSeek>>

\* Line 549: playbackTime = 0.0; the thread ends.
ThreadEndTime ==
    /\ Alive
    /\ tpc = "t_end_time"
    /\ playbackTime' = 0
    /\ tpc' = "finished"
    /\ threadExit' = "ended"
    /\ UNCHANGED <<build, registry, cli, session, flags, playbackPosition, device, iter, tempThread,
                   locals, caller, crash, pollsSinceSeek>>

(***************************************************************************)
(* Accesses to the members of Impl that are neither std::atomic nor        *)
(* guarded: audioEngineMutex (line 57) is never locked.  An access is a    *)
(* pair <<member, "read" or "write">>.                                     *)
(***************************************************************************)
PlainFields == { "playbackPosition", "playbackTime", "hWaveOut" }

\* What the caller's next step reads and writes: Seek (lines 668-677 and
\* 688-696), Pause (lines 571, 583), Stop (lines 617-629).
CallerAccess ==
    CASE cpc = "seek_check" ->
            IF /\ initialized /\ ~SeekOutOfRange(arg) /\ audioLoaded /\ ~isPlaying
               /\ waveFormat.nSamplesPerSec > 0 /\ waveFormat.nBlockAlign > 0
            THEN { <<"playbackPosition", "write">>, <<"playbackTime", "write">> }
            ELSE {}
      [] cpc = "seek_device" ->
            { <<"hWaveOut", "read">> }
            \cup (IF /\ hWaveOut # "null" /\ DevicePauseOk
                      /\ waveFormat.nAvgBytesPerSec > 0
                      /\ SeekBytePos(arg, waveFormat.nAvgBytesPerSec) < audioSize
                   THEN { <<"playbackPosition", "write">>, <<"playbackTime", "write">> }
                   ELSE {})
      [] cpc = "pause_device" -> { <<"hWaveOut", "read">> }
      [] cpc = "stop_reset" ->
            { <<"playbackPosition", "write">>, <<"playbackTime", "write">> }
            \cup (IF win32 THEN { <<"hWaveOut", "read">> } ELSE {})
            \cup (IF win32 /\ hWaveOut # "null" THEN { <<"hWaveOut", "write">> } ELSE {})
      [] OTHER -> {}

\* What the playback thread's next step reads and writes (lines 466, 473,
\* 479-491, 507-510, 521-523, 535, 549).
ThreadAccess ==
    CASE tpc = "t_open"    -> { <<"hWaveOut", "write">> }
      [] tpc = "t_prepare" -> { <<"playbackPosition", "read">>, <<"hWaveOut", "read">> }
      [] tpc = "t_write"   -> { <<"hWaveOut", "read">> }
      [] tpc = "t_check_stop" /\ shouldStop ->
            { <<"hWaveOut", "read">>, <<"hWaveOut", "write">> }
      [] tpc = "t_cleanup" /\ ~shouldStop ->
            { <<"hWaveOut", "read">>, <<"hWaveOut", "write">> }
      [] tpc = "s_body" /\ ~isPaused ->
            { <<"playbackTime", "read">>, <<"playbackTime", "write">> }
      [] tpc = "t_end_time" -> { <<"playbackTime", "write">> }
      [] OTHER -> {}

(***************************************************************************)
(* The specification.                                                      *)
(***************************************************************************)
\* The calls that load and play, and their steps.
PlaybackEnter ==
    \/ CallInitialize
    \/ CallLoadFile
    \/ CallPlay
    \/ CallPause
    \/ CallStop
    \/ CallSeek
    \/ Destroy

CallerEnter ==
    \/ PlaybackEnter
    \/ CallSetEQ
    \/ CallSetTargetBitrate
    \/ CallSaveFile
    \/ CallQuery

PlaybackStep ==
    \/ Resume
    \/ Initialize
    \/ LoadFile
    \/ PlayCheck
    \/ PlaySignal
    \/ PlayJoin
    \/ PlayClear
    \/ PlaySpawn
    \/ PlayAssign
    \/ PlayStore
    \/ PauseCheck
    \/ PauseLoad
    \/ PauseStore
    \/ PauseDevice
    \/ StopSignal
    \/ StopJoin
    \/ StopReset
    \/ SeekCheck
    \/ SeekDevice

CallerStep ==
    \/ PlaybackStep
    \/ SetEQ
    \/ SetTargetBitrate
    \/ SaveFile
    \/ Query

ThreadStep ==
    \/ ThreadOpen
    \/ ThreadPrepare
    \/ ThreadWrite
    \/ ThreadLoop
    \/ ThreadCheckPaused
    \/ ThreadCheckStop
    \/ ThreadStopStore
    \/ ThreadCleanup
    \/ SimLoop
    \/ SimBody
    \/ ThreadEndPlaying
    \/ ThreadEndPaused
    \/ ThreadEndTime

Next == CallerEnter \/ CallerStep \/ ThreadStep \/ DeviceConsume

Spec == Init /\ [][Next]_vars

\* The engine driven by the calls that load and play only.
PlaybackNext == PlaybackEnter \/ PlaybackStep \/ ThreadStep \/ DeviceConsume

\* The scheduler runs the playback thread and the caller's call in
\* progress, and the device plays what it was given; the caller is free
\* never to make another call.
FairSpec ==
    /\ Init
    /\ [][PlaybackNext]_vars
    /\ WF_vars(ThreadStep)
    /\ WF_vars(PlaybackStep)
    /\ WF_vars(DeviceConsume)

(***************************************************************************)
(* Loading and saving alone, over the files of every layout: the caller    *)
(* initializes the engine, loads files and saves what is loaded; nothing   *)
(* is played.                                                              *)
(***************************************************************************)
WavCallLoadFile ==
    \E f \in WavFiles \cup {MissingFile} : EnterWith("LoadFile", NoArg, f, "", NoEQ, "loadfile")

WavNext ==
    \/ CallInitialize
    \/ Initialize
    \/ WavCallLoadFile
    \/ LoadFile
    \/ CallSaveFile
    \/ SaveFile
    \/ Resume

WavSpec == Init /\ [][WavNext]_vars

(***************************************************************************)
(* The engine loading files of every kind: well-formed and malformed WAV   *)
(* files, FLAC files, files of other extensions.  The caller initializes   *)
(* the engine, loads files and asks what is loaded; nothing is played.     *)
(***************************************************************************)
LoadCallLoadFile ==
    \E f \in AllFiles \cup {MissingFile} : EnterWith("LoadFile", NoArg, f, "", NoEQ, "loadfile")

LoadNext ==
    \/ CallInitialize
    \/ Initialize
    \/ LoadCallLoadFile
    \/ LoadFile
    \/ CallQuery
    \/ Query
    \/ Resume

LoadSpec == Init /\ [][LoadNext]_vars

(***************************************************************************)
(* The engine setting the equalizer: the caller initializes the engine and *)
(* calls SetEQ with values at, inside and outside the bounds.              *)
(***************************************************************************)
EQCallSetEQ == \E e \in EQBoundaryInputs : EnterWith("SetEQ", NoArg, "", "", e, "seteq")

EQNext ==
    \/ CallInitialize
    \/ Initialize
    \/ EQCallSetEQ
    \/ SetEQ
    \/ Resume

EQSpec == Init /\ [][EQNext]_vars

(***************************************************************************)
(* The engine converting every 16-bit sample value: a session that holds   *)
(* a mono 16-bit buffer of one sample, on which the caller calls           *)
(* SetTargetBitrate again and again.                                       *)
(***************************************************************************)
\* The values of a short.
Samples == (0 - 32768)..32767

ConvInit ==
    /\ win32 \in BOOLEAN
    /\ enableFlac \in BOOLEAN
    /\ NoDecoders
    /\ command = "none"
    /\ cliRet = "pending"
    /\ initialized = TRUE
    /\ gpuProcessor = "available"
    /\ currentFile = "sample.wav"
    /\ audioLoaded = TRUE
    /\ \E v \in Samples : audioData = ShortBytes(v)
    /\ waveFormat = WaveFormatOf([numChannels |-> 1, sampleRate |-> 8000, bitsPerSample |-> 16])
    /\ isPlaying = FALSE
    /\ isPaused = FALSE
    /\ shouldStop = FALSE
    /\ playbackPosition = 0
    /\ playbackTime = 0
    /\ hWaveOut = "null"
    /\ devState = "closed"
    /\ devPaused = FALSE
    /\ hdrDone = FALSE
    /\ hdrOffset = 0
    /\ tpc = "none"
    /\ iter = 0
    /\ tempThread = FALSE
    /\ threadExit = "none"
    /\ crash = "none"
    /\ cpc = "idle"
    /\ op = "none"
    /\ arg = NoArg
    /\ filePath = ""
    /\ processorArg = ""
    /\ eqArg = NoEQ
    /\ ret = "pending"
    /\ entryPosition = 0
    /\ wavOut = <<>>
    /\ pausedValue = FALSE
    /\ wasPlaying = FALSE
    /\ wasPaused = FALSE
    /\ pollsSinceSeek = 0 - 1

ConvNext ==
    \/ CallSetTargetBitrate
    \/ SetTargetBitrate
    \/ Resume

ConvSpec == ConvInit /\ [][ConvNext]_vars

(***************************************************************************)
(* DecoderFactory (src/decoders/DecoderFactory.cpp).  A path and a format  *)
(* are sequences of characters; a factory is named by the function         *)
(* registered.                                                             *)
(***************************************************************************)
UpperCase == <<"A", "B", "C", "D", "E", "F", "G", "H", "I", "J", "K", "L", "M",
               "N", "O", "P", "Q", "R", "S", "T", "U", "V", "W", "X", "Y", "Z">>
LowerCase == <<"a", "b", "c", "d", "e", "f", "g", "h", "i", "j", "k", "l", "m",
               "n", "o", "p", "q", "r", "s", "t", "u", "v", "w", "x", "y", "z">>

\* std::tolower on one character (line 26).
tolower(c) ==
    IF \E i \in 1..26 : UpperCase[i] = c
    THEN LowerCase[CHOOSE i \in 1..26 : UpperCase[i] = c]
    ELSE c

\* std::transform(format.begin(), format.end(), format.begin(), tolower).
ToLowerCase(str) == [i \in 1..Len(str) |-> tolower(str[i])]

\* filePath.find_last_of('.'), as an index from 0; npos is -1 here.
FindLastDot(str) ==
    LET dots == { i \in 1..Len(str) : str[i] = "." }
    IN  IF dots = {} THEN 0 - 1 ELSE (CHOOSE i \in dots : \A j \in dots : j <= i) - 1

\* Lines 23-26: the text after the last dot, in lower case.
LookupFormat(path) == ToLowerCase(SubSeq(path, FindLastDot(path) + 2, Len(path)))

\* decoders.find(format) != decoders.end() (lines 29-30).
Registered(map, format) == \E entry \in map : entry[1] = format

\* it->second
FactoryOf(map, format) == (CHOOSE entry \in map : entry[1] = format)[2]

\* The paths CreateDecoder is called with: test.mp3 (decoder_test.cpp:9)
\* in three spellings, a path with two dots, a .wav path, a path without a
\* dot, and a path that ends in a dot.
PathInputs ==
    { <<"t", ".", "m", "p", "3">>, <<"t", ".", "M", "P", "3">>, <<"t", ".", "M", "p", "3">>,
      <<"a", ".", "b", ".", "m", "p", "3">>, <<"t", ".", "w", "a", "v">>, <<"t">>, <<"t", ".">> }

\* The formats and the factory functions RegisterDecoder is called with.
FormatInputs == { <<"m", "p", "3">>, <<"M", "P", "3">>, <<"M", "p", "3">>, <<"w", "a", "v">> }

Factories == { "factoryA", "factoryB" }

\* DecoderFactory::RegisterDecoder (lines 40-43): decoders[format] = factory,
\* the key being the format as given.
RegisterDecoder ==
    \E format \in FormatInputs, factory \in Factories :
        /\ decoders' = { entry \in decoders : entry[1] # format } \cup { <<format, factory>> }
        /\ decoderOp' = "RegisterDecoder"
        /\ UNCHANGED <<decoderPath, decoder>>
        /\ UNCHANGED <<build, cli, session, flags, posvars, device, thread, locals, caller,
                       crash, pollsSinceSeek>>

\* DecoderFactory::CreateDecoder (lines 16-38).
CreateDecoder ==
    \E path \in PathInputs :
        /\ decoderPath' = path
        /\ decoder' = IF FindLastDot(path) = 0 - 1
                      THEN "nullptr"
                      ELSE IF Registered(decoders, LookupFormat(path))
                      THEN FactoryOf(decoders, LookupFormat(path))
                      ELSE "nullptr"
        /\ decoderOp' = "CreateDecoder"
        /\ UNCHANGED decoders
        /\ UNCHANGED <<build, cli, session, flags, posvars, device, thread, locals, caller,
                       crash, pollsSinceSeek>>

DecoderNext == RegisterDecoder \/ CreateDecoder

DecoderSpec == Init /\ [][DecoderNext]_vars

(***************************************************************************)
(* The engine driven through the command line interface: main()            *)
(* initializes the engine, and every call after that is made by a command. *)
(***************************************************************************)
CliNext ==
    \/ CallInitialize
    \/ Initialize
    \/ Resume
    \/ CliCommand
    \/ LoadFile
    \/ SetTargetBitrate
    \/ SaveFile
    \/ GetStats
    \/ CliReturn
    \/ CliSilent

CliSpec == Init /\ [][CliNext]_vars

(***************************************************************************)
(* C1.  At most one playback thread is live: no reachable state has two    *)
(* running playback threads, Play() joining the existing thread before it  *)
(* starts a new one.                                                       *)
(***************************************************************************)
C1_AtMostOneThread == LiveThreads <= 1

(***************************************************************************)
(* C2.  When Stop() returns after being called in state Playing or Paused, *)
(* the playback thread has ended and has been joined, once (the thread     *)
(* object existed when the join was reached, and no join was made on a     *)
(* thread that is not joinable); IsPlaying() and IsPaused() are false and  *)
(* playbackPosition is 0.                                                  *)
(***************************************************************************)
StopCalledActive == op = "Stop" /\ (wasPlaying \/ wasPaused)

C2_StopJoinsAndResets ==
    /\ (cpc = "stop_join" /\ StopCalledActive) => Joinable
    /\ (cpc = "returned" /\ StopCalledActive) =>
          /\ ret = "true"
          /\ tpc = "none"
          /\ LiveThreads = 0
          /\ crash = "none"
          /\ ~isPlaying
          /\ ~isPaused
          /\ playbackPosition = 0

C2_Witness == cpc = "returned" /\ op = "Stop" /\ wasPlaying /\ ret = "true"

(***************************************************************************)
(* C3.  A Stop(), or the restart path of Play(), issued while the session  *)
(* is Paused eventually returns from its join: the playback thread         *)
(* observes shouldStop even while isPaused is set.                         *)
(***************************************************************************)
JoinWhilePaused ==
    \/ cpc = "stop_join" /\ wasPaused
    \/ cpc = "play_join" /\ isPaused

C3_StopWhilePausedReturns == JoinWhilePaused ~> (cpc \notin {"stop_join", "play_join"})

(***************************************************************************)
(* C4.  Destroying the engine never destroys the thread object while the   *)
(* playback thread is running or joinable: the destructor signals and      *)
(* joins the thread first.                                                 *)
(***************************************************************************)
C4_DestructorJoinsThread == crash # "destroy_joinable"

(***************************************************************************)
(* C5.  Stop() called when the state is already Stopped.                   *)
(*                                                                         *)
(* As claimed: it returns success, joins no thread and leaves              *)
(* playbackPosition unchanged.                                             *)
(***************************************************************************)
StopCalledStopped == op = "Stop" /\ initialized /\ ~wasPlaying /\ ~wasPaused

C5_StopWhenStoppedKeepsPosition ==
    [][ StopCalledStopped =>
          /\ (cpc = "stop_join" /\ cpc' = "stop_reset") => tpc' = tpc
          /\ (cpc = "stop_reset" /\ cpc' = "returned") =>
                (ret' = "true" /\ playbackPosition' = playbackPosition) ]_vars

\* As the code has it: it returns success with playbackPosition 0, whatever
\* an earlier Seek() had stored, and no thread object is left joinable (a
\* playback thread that ended by itself is joined here).
C5_StopWhenStoppedResets ==
    (cpc = "returned" /\ StopCalledStopped) =>
        /\ ret = "true"
        /\ playbackPosition = 0
        /\ playbackTime = 0
        /\ ~Joinable
        /\ crash = "none"

\* Stop() has returned from the Stopped state, having found the position
\* an earlier Seek() had stored.
C5_Witness ==
    /\ cpc = "returned"
    /\ StopCalledStopped
    /\ ret = "true"
    /\ entryPosition > 0
    /\ playbackPosition = 0

(***************************************************************************)
(* C6.  Pause() is a single toggle.  Each step of Pause() leaves the       *)
(* file, the buffer, the format, the position, the time, isPlaying and     *)
(* shouldStop alone; while a playback is active its store inverts          *)
(* isPaused; when isPlaying is false it returns having changed nothing.    *)
(***************************************************************************)
PausePcs == {"pause_check", "pause_load", "pause_store", "pause_device"}

\* The playback thread is running and has not begun its end-of-playback
\* reset.
PlaybackActive ==
    /\ isPlaying
    /\ Running
    /\ tpc \notin {"t_stop_store", "t_end_playing", "t_end_paused", "t_end_time"}

PauseStep == op = "Pause" /\ cpc \in PausePcs /\ cpc' # cpc

C6_PauseToggles ==
    [][ PauseStep =>
          /\ UNCHANGED <<initialized, currentFile, audioLoaded, audioSize, waveFormat,
                         playbackPosition, playbackTime, isPlaying, shouldStop, tpc>>
          /\ (cpc = "pause_store" /\ PlaybackActive) => (isPaused' = ~isPaused)
          /\ (cpc # "pause_store") => UNCHANGED isPaused
          /\ (cpc = "pause_check" /\ initialized /\ ~isPlaying) =>
                /\ cpc' = "returned"
                /\ ret' = "true"
                /\ UNCHANGED <<flags, device>> ]_vars

\* A second Pause() has resumed a playback the first one paused.
C6_Witness ==
    /\ cpc = "returned"
    /\ op = "Pause"
    /\ pausedValue
    /\ ~isPaused
    /\ PlaybackActive

(***************************************************************************)
(* C7.  A session that is Paused stays Paused while the caller makes no    *)
(* call: the playback thread stays alive and does not reach the end of     *)
(* playback.                                                               *)
(***************************************************************************)
\* The playback thread is in its playback loop, the session is Paused, and
\* (waveOut build) the device is open.
LoopPcs == {"t_loop", "t_check_paused", "t_check_stop", "s_loop", "s_body"}

Paused ==
    /\ isPlaying
    /\ isPaused
    /\ tpc \in LoopPcs
    /\ win32 => devState # "closed"

C7_PausedStaysPaused ==
    [][ (cpc = "idle" /\ cpc' = "idle" /\ Paused) =>
            (Paused' /\ playbackTime' = playbackTime) ]_vars

(***************************************************************************)
(* C8.  With a file loaded, Seek(seconds) is rejected exactly when         *)
(* seconds < 0 or seconds > 3600, and a rejected Seek has changed neither  *)
(* the position, nor the time, nor the device.                             *)
(***************************************************************************)
SeekReturns ==
    /\ op = "Seek"
    /\ cpc \in {"seek_check", "seek_device"}
    /\ cpc' = "returned"
    /\ initialized
    /\ audioLoaded

C8_SeekRejectedOnlyOutOfRange ==
    [][ SeekReturns =>
          /\ (ret' = "false") <=> SeekOutOfRange(arg)
          /\ (ret' = "false") =>
                UNCHANGED <<playbackPosition, playbackTime, hWaveOut, devState, devPaused>> ]_vars

(***************************************************************************)
(* C9.  An accepted Seek(seconds) succeeds and leaves playbackPosition at  *)
(* floor(seconds * nAvgBytesPerSec) when that lies inside the buffer, and  *)
(* at 0 when it does not, in every playback state.                         *)
(***************************************************************************)
SeekTarget(s) ==
    IF SeekBytePos(s, waveFormat.nAvgBytesPerSec) < audioSize
    THEN SeekBytePos(s, waveFormat.nAvgBytesPerSec)
    ELSE 0

C9_SeekSetsPosition ==
    [][ (SeekReturns /\ ~SeekOutOfRange(arg)) =>
          (ret' = "true" /\ playbackPosition' = SeekTarget(arg)) ]_vars

(***************************************************************************)
(* C10.  A Seek() made while Playing takes effect on the running           *)
(* playback: once the playback thread has completed a poll iteration       *)
(* after the Seek, the buffer it plays starts at playbackPosition.         *)
(***************************************************************************)
PollPcs == {"t_loop", "t_check_paused", "t_check_stop"}

C10_SeekPickedUpByThread ==
    (tpc \in PollPcs /\ pollsSinceSeek = 1) => hdrOffset = playbackPosition

(***************************************************************************)
(* C11.  Seek is monotone while nothing plays: for 0 <= s1 < s2 <=         *)
(* duration (duration = audioData.size() / nAvgBytesPerSec, so s2 may be   *)
(* the duration itself), the position a Seek(s2) leaves is at least the    *)
(* position Seek(s1) leaves on the same file.                              *)
(***************************************************************************)
\* s1 < s2, for two rationals with positive denominators.
SecondsLess(s1, s2) == s1[1] * s2[2] < s2[1] * s1[2]

\* 0 <= s <= audioData.size() / nAvgBytesPerSec.
WithinDuration(s) ==
    /\ s[1] >= 0
    /\ s[1] * waveFormat.nAvgBytesPerSec <= audioSize * s[2]

C11_SeekMonotone ==
    [][ ( /\ op = "Seek"
          /\ cpc = "seek_check"
          /\ cpc' = "returned"
          /\ ret' = "true"
          /\ ~isPlaying
          /\ waveFormat.nAvgBytesPerSec > 0
          /\ WithinDuration(arg) ) =>
        \A s1 \in SeekInputs :
            (s1[1] >= 0 /\ SecondsLess(s1, arg)) =>
                playbackPosition' >= SeekStoppedPosition(s1)[1] ]_vars

(***************************************************************************)
(* C12.  playbackPosition is a multiple of nBlockAlign in every reachable  *)
(* state, in particular after a Seek of a fractional number of seconds.    *)
(***************************************************************************)
C12_PositionBlockAligned ==
    (audioLoaded /\ waveFormat.nBlockAlign > 0) =>
        playbackPosition % waveFormat.nBlockAlign = 0

(***************************************************************************)
(* C13.  A playback thread that reaches the natural end of the buffer      *)
(* (no stop was requested) stores false to isPlaying and to isPaused and   *)
(* ends with playbackPosition at 0, whatever position the playback started *)
(* from.                                                                   *)
(***************************************************************************)
C13_NaturalEndResets ==
    [][ ~shouldStop =>
          /\ (tpc = "t_end_playing" /\ tpc' # tpc) => ~isPlaying'
          /\ (tpc = "t_end_paused" /\ tpc' # tpc) => ~isPaused'
          /\ (tpc = "t_end_time" /\ tpc' = "finished") => playbackPosition' = 0 ]_vars

(***************************************************************************)
(* C14.  When waveOutOpen, waveOutPrepareHeader or waveOutWrite fails, the *)
(* playback thread exits and the session is Stopped: once Play() has       *)
(* returned and the thread has ended on such a failure, IsPlaying() is     *)
(* false (nothing is left that could still make it false).                 *)
(***************************************************************************)
DeviceFailed ==
    /\ tpc = "finished"
    /\ threadExit \in {"open_failed", "prepare_failed", "write_failed"}

C14_DeviceFailureStops == (DeviceFailed /\ cpc = "idle") => ~isPlaying

(***************************************************************************)
(* C15.  Before a successful Initialize, every step of LoadFile, Play,     *)
(* Pause, Stop, Seek, SetEQ, SetTargetBitrate and SaveFile returns false   *)
(* at once with the session, the flags, the position, the device and the   *)
(* thread unchanged and no file written, and IsFileLoaded, IsPlaying and   *)
(* IsPaused return false.                                                  *)
(***************************************************************************)
FacadeOps == { "LoadFile", "Play", "Pause", "Stop", "Seek", "SetEQ",
               "SetTargetBitrate", "SaveFile" } \cup Queries

CallStepUninitialized ==
    /\ ~initialized
    /\ op \in FacadeOps
    /\ cpc \notin {"idle", "returned", "destroyed"}
    /\ cpc' # cpc

C15_UninitializedCallsFail ==
    [][ CallStepUninitialized =>
          /\ cpc' = "returned"
          /\ ret' = "false"
          /\ wavOut' = <<>>
          /\ UNCHANGED <<session, flags, posvars, device, thread, crash>> ]_vars

\* SetEQ, with the values of the test, has been refused for want of
\* Initialize.
C15_Witness ==
    /\ cpc = "returned"
    /\ op = "SetEQ"
    /\ EQInRange(eqArg)
    /\ ~initialized
    /\ ret = "false"

(***************************************************************************)
(* C16.  Initialize with any non-null processor succeeds, also when the    *)
(* processor's IsAvailable() is false: it returns true and the engine is   *)
(* initialized.                                                            *)
(***************************************************************************)
C16_InitializeBindsAnyProcessor ==
    [][ (cpc = "initialize" /\ cpc' = "returned" /\ processorArg # "null") =>
            (ret' = "true" /\ initialized') ]_vars

(***************************************************************************)
(* C17.  SetTargetBitrate is fail-closed: a call that returns false has    *)
(* left audioData and waveFormat as they were.                             *)
(***************************************************************************)
C17_BitrateFailClosed ==
    [][ (cpc = "bitrate" /\ cpc' = "returned" /\ ret' = "false") =>
            UNCHANGED <<audioData, waveFormat>> ]_vars

\* SetTargetBitrate has failed on a loaded 16-bit buffer (the processor's
\* ConvertBitrate returned false).
C17_Witness ==
    /\ cpc = "returned"
    /\ op = "SetTargetBitrate"
    /\ ret = "false"
    /\ initialized
    /\ waveFormat.wBitsPerSample = 16
    /\ NumSamples > 0

(***************************************************************************)
(* C18.  audioData is not resized, rewritten or replaced while a playback  *)
(* thread is live: LoadFile and SetTargetBitrate leave the buffer alone    *)
(* as long as the thread has not been stopped and joined.                  *)
(***************************************************************************)
C18_BufferStableWhilePlaying ==
    [][ LiveThreads > 0 => UNCHANGED audioData ]_vars

(***************************************************************************)
(* C19 and C20 read a file the way RIFF lays it out: chunks follow the     *)
(* 12-byte RIFF/WAVE header, each an id, a size and that many bytes.       *)
(***************************************************************************)
\* The offset of the first chunk with this id, walking from cursor; -1 if
\* there is none.
RECURSIVE RiffChunk(_, _, _, _)
RiffChunk(bytes, id, cursor, fuel) ==
    IF fuel = 0 \/ cursor + 8 > Len(bytes)
    THEN 0 - 1
    ELSE IF SubSeq(bytes, cursor + 1, cursor + 4) = id
    THEN cursor
    ELSE RiffChunk(bytes, id, cursor + 8 + ReadInt(bytes, cursor + 4), fuel - 1)

\* The fields of the "fmt " chunk, wherever it is.
RiffFormat(bytes) ==
    LET c == RiffChunk(bytes, IdFmt, 12, Len(bytes))
    IN  [numChannels |-> ReadShort(bytes, c + 10),
         sampleRate |-> ReadInt(bytes, c + 12),
         bitsPerSample |-> ReadShort(bytes, c + 22)]

\* The payload of the first "data" chunk.
RiffData(bytes) ==
    LET c == RiffChunk(bytes, IdData, 12, Len(bytes))
    IN  SubSeq(bytes, c + 9, c + 8 + ReadInt(bytes, c + 4))

\* A mono or stereo 16-bit PCM file.
Pcm16(f) ==
    /\ f \in WavFiles
    /\ RiffFormat(FileBytes(f)).bitsPerSample = 16
    /\ RiffFormat(FileBytes(f)).numChannels \in {1, 2}

(***************************************************************************)
(* C19.  Round trip: LoadFile of a mono or stereo 16-bit PCM WAV file      *)
(* succeeds, and a SaveFile that follows writes a file whose data chunk    *)
(* has the bytes and the length of the data chunk loaded, with the         *)
(* channels, sample rate and bits per sample of the file loaded.           *)
(***************************************************************************)
C19_RoundTrip ==
    /\ (cpc = "returned" /\ op = "LoadFile" /\ initialized /\ Pcm16(filePath)) =>
          (ret = "true" /\ currentFile = filePath)
    /\ (cpc = "returned" /\ op = "SaveFile" /\ ret = "true" /\ Pcm16(currentFile)) =>
          /\ RiffData(wavOut) = RiffData(FileBytes(currentFile))
          /\ RiffFormat(wavOut) = RiffFormat(FileBytes(currentFile))

(***************************************************************************)
(* C20.  LoadFile parses a WAV file by its chunks: the format comes from   *)
(* the "fmt " chunk wherever it is and whatever its size, other chunks     *)
(* are skipped by their size, the payload is the first "data" chunk; so    *)
(* extra chunks before "fmt " or between "fmt " and "data" change neither  *)
(* the format nor the payload loaded.                                      *)
(***************************************************************************)
C20_ParseFollowsChunks ==
    (cpc = "returned" /\ op = "LoadFile" /\ initialized /\ FileExists(filePath)) =>
        /\ ret = "true"
        /\ waveFormat = WaveFormatOf(RiffFormat(FileBytes(filePath)))
        /\ audioData = RiffData(FileBytes(filePath))

(***************************************************************************)
(* C21.  LoadFile of a .wav file whose first four bytes are not "RIFF"     *)
(* (files shorter than a header included) returns false, and              *)
(* IsFileLoaded() is false afterwards if it was false before.              *)
(***************************************************************************)
\* The file does not start with the four bytes "RIFF".
NotRiff(bytes) == Len(bytes) < 4 \/ SubSeq(bytes, 1, 4) # IdRIFF

LoadFileReturns == cpc = "loadfile" /\ cpc' = "returned"

C21_NonRiffRejected ==
    [][ (/\ LoadFileReturns
         /\ filePath \in AllFiles
         /\ Extension(filePath) = "wav"
         /\ NotRiff(FileBytes(filePath)))
        => /\ ret' = "false"
           /\ (~QueryValue("IsFileLoaded") => ~QueryValue("IsFileLoaded")') ]_vars

\* An initialized engine with nothing loaded has refused a file that is a
\* complete PCM layout under another magic.
C21_Witness ==
    /\ cpc = "returned"
    /\ op = "LoadFile"
    /\ filePath = "rifx.wav"
    /\ initialized
    /\ ret = "false"
    /\ ~QueryValue("IsFileLoaded")

(***************************************************************************)
(* C22.  A facade call that returns false (LoadFile, Play, Seek, SetEQ,    *)
(* SetTargetBitrate, SaveFile) leaves the session as it was: the step that *)
(* returns false changes neither the file path, the PCM buffer, the        *)
(* format, the position, the playback flags nor the paused/running         *)
(* condition of the device.                                                *)
(***************************************************************************)
FailableOps == { "LoadFile", "Play", "Seek", "SetEQ", "SetTargetBitrate", "SaveFile" }

ReturnsFalse == op \in FailableOps /\ cpc # "returned" /\ cpc' = "returned" /\ ret' = "false"

C22_FailureLeavesSession ==
    [][ ReturnsFalse
        => UNCHANGED <<currentFile, audioLoaded, audioData, waveFormat, playbackPosition,
                       playbackTime, isPlaying, isPaused, devState, devPaused>> ]_vars

(***************************************************************************)
(* C23.  LoadFile of an existing, non-empty file whose extension is        *)
(* neither wav nor flac returns false and leaves the session without       *)
(* synthesized audio: buffer, format, loaded flag and path are as before.  *)
(***************************************************************************)
C23_UnsupportedExtensionRejected ==
    [][ (/\ LoadFileReturns
         /\ initialized
         /\ filePath \in AllFiles
         /\ FileBytes(filePath) # <<>>
         /\ Extension(filePath) \notin {"wav", "flac"})
        => /\ ret' = "false"
           /\ UNCHANGED <<audioData, waveFormat, audioLoaded, currentFile>> ]_vars

(***************************************************************************)
(* C24.  LoadFile rejects a file whose format has no channels or a sample  *)
(* rate of 0: a LoadFile that returns true never leaves the session with a *)
(* format whose channels, sample rate, block alignment or average bytes    *)
(* per second are 0.                                                       *)
(***************************************************************************)
C24_ZeroFormatRejected ==
    [][ (LoadFileReturns /\ ret' = "true")
        => /\ waveFormat'.nChannels > 0
           /\ waveFormat'.nSamplesPerSec > 0
           /\ waveFormat'.nBlockAlign > 0
           /\ waveFormat'.nAvgBytesPerSec > 0 ]_vars

(***************************************************************************)
(* C25.  In a build with FLAC support, a stream whose bit depth is neither *)
(* 16 nor 24 is not loaded: LoadFile returns false (the write callback     *)
(* aborting the decode) rather than packing its samples as 16-bit values,  *)
(* and no frame has more bytes stored than the blocksize * channels *      *)
(* bitsPerSample / 8 it was given room for.                                *)
(***************************************************************************)
\* LoadFile decodes a FLAC stream: the step ends the call or the process.
LoadFileDecodes ==
    /\ cpc = "loadfile"
    /\ cpc' = "returned" \/ crash' # crash
    /\ initialized
    /\ enableFlac
    /\ filePath \in FlacFiles
    /\ FlacStream(filePath).decodable

C25_FlacDepthChecked ==
    [][ LoadFileDecodes
        => /\ FlacStream(filePath).info.bits_per_sample \notin {16, 24}
                => (ret' = "false" /\ crash' = crash)
           /\ DecodedImage[filePath].written <= DecodedImage[filePath].capacity ]_vars

(***************************************************************************)
(* C27.  After every LoadFile that returns true the playback position is   *)
(* 0, whatever Seek() did on the file loaded before.                       *)
(***************************************************************************)
C27_LoadResetsPosition ==
    [][ (LoadFileReturns /\ ret' = "true") => playbackPosition' = 0 ]_vars

(***************************************************************************)
(* C26.  On an initialized engine SetEQ returns true exactly when both     *)
(* frequencies lie in [20, 20000], both gains in [-20, 20] and both Q      *)
(* values in [0.1, 10], bounds included; a call refused for any one value  *)
(* changes nothing of the session.                                         *)
(***************************************************************************)
\* lo <= x <= hi for rationals x, lo and hi.
Between(x, lo, hi) == lo[1] * x[2] <= x[1] * lo[2] /\ x[1] * hi[2] <= hi[1] * x[2]

EQAccepted(e) ==
    /\ \A k \in {1, 4} : Between(e[k], <<20, 1>>, <<20000, 1>>)
    /\ \A k \in {2, 5} : Between(e[k], <<0 - 20, 1>>, <<20, 1>>)
    /\ \A k \in {3, 6} : Between(e[k], <<1, 10>>, <<10, 1>>)

C26_SetEQRanges ==
    [][ (cpc = "seteq" /\ cpc' = "returned" /\ initialized)
        => /\ (ret' = "true") <=> EQAccepted(eqArg)
           /\ ret' = "false" => UNCHANGED <<session, flags, posvars, device, thread>> ]_vars

\* SetEQ has accepted the six values at their bounds.
C26_Witness ==
    /\ cpc = "returned"
    /\ op = "SetEQ"
    /\ initialized
    /\ eqArg = << <<20, 1>>, <<0 - 20, 1>>, <<1, 10>>, <<20000, 1>>, <<20, 1>>, <<10, 1>> >>
    /\ ret = "true"

(***************************************************************************)
(* C28.  Each command maps to its facade method: when the command line     *)
(* interface has handled pause, stop, seek, eq, load, bitrate, save or     *)
(* stats, the engine's Pause, Stop, Seek, SetEQ, LoadFile,                 *)
(* SetTargetBitrate, SaveFile or GetStats was called for it, and (stats    *)
(* apart) the command returns what that call returned.                     *)
(***************************************************************************)
CommandMethod(c) ==
    CASE c = "pause"   -> "Pause"
      [] c = "stop"    -> "Stop"
      [] c = "seek"    -> "Seek"
      [] c = "eq"      -> "SetEQ"
      [] c = "load"    -> "LoadFile"
      [] c = "bitrate" -> "SetTargetBitrate"
      [] c = "save"    -> "SaveFile"
      [] c = "stats"   -> "GetStats"
      [] OTHER         -> "none"

\* The step on which a command returns.
CommandDone == cliRet' # "pending" /\ cli' # cli

C28_CommandsCallFacade ==
    [][ (CommandDone /\ CommandMethod(command') # "none")
        => /\ cpc = "returned"
           /\ op = CommandMethod(command')
           /\ command' # "stats" => cliRet' = ret ]_vars

(***************************************************************************)
(* C29.  Accesses to the position, the playback time and the device handle *)
(* are synchronized: in no reachable state is the caller about to access   *)
(* one of these fields and the playback thread about to access the same    *)
(* field, one of the two accesses being a write.                           *)
(***************************************************************************)
Conflict(a, b) == a[1] = b[1] /\ a[1] \in PlainFields /\ "write" \in {a[2], b[2]}

C29_NoUnsynchronizedAccess ==
    Alive => \A a \in CallerAccess, b \in ThreadAccess : ~Conflict(a, b)

(***************************************************************************)
(* C30.  While a playback thread is live only that thread operates the     *)
(* device: no step of the caller's Pause(), Seek() or Stop() pauses,       *)
(* restarts, resets or closes the device while a playback thread runs.     *)
(***************************************************************************)
\* The caller's step calls waveOutPause, waveOutRestart, waveOutReset or
\* waveOutClose.
CallerDeviceOperation ==
    /\ cpc \in {"pause_device", "seek_device", "stop_reset"}
    /\ cpc' # cpc
    /\ win32
    /\ hWaveOut # "null"

C30_ThreadOwnsDevice == [][ CallerDeviceOperation => LiveThreads = 0 ]_vars

(***************************************************************************)
(* C31.  The 16-bit conversion of SetTargetBitrate never overflows: after  *)
(* a conversion of a 16-bit buffer that returned true, every sample lies   *)
(* in [-32767, 32767], whatever 16-bit value it had before (-32768         *)
(* included).                                                              *)
(***************************************************************************)
Converted16 ==
    /\ cpc = "returned"
    /\ op = "SetTargetBitrate"
    /\ ret = "true"
    /\ waveFormat.wBitsPerSample = 16

C31_ConversionInRange ==
    Converted16 =>
        \A i \in 1..(audioSize \div 2) :
            /\ ReadShort(audioData, 2 * (i - 1)) >= 0 - 32767
            /\ ReadShort(audioData, 2 * (i - 1)) <= 32767

\* A converted sample is -32767: what the conversion makes of -32768, and
\* of no other value.
C31_Witness == Converted16 /\ audioSize = 2 /\ ReadShort(audioData, 0) = 0 - 32767

(***************************************************************************)
(* C32.  Whenever no call on the facade is in progress, IsPaused() implies *)
(* IsPlaying(): a Pause() that interleaves with the playback thread's      *)
(* end-of-playback reset leaves no session paused but not playing.  It is  *)
(* stated for the states in which no playback thread is running, where     *)
(* nothing is left that could still clear isPaused.                        *)
(***************************************************************************)
NoCallInProgress == cpc \in {"idle", "returned"} /\ crash = "none"

C32_PausedImpliesPlaying ==
    (NoCallInProgress /\ initialized /\ LiveThreads = 0) =>
        (QueryValue("IsPaused") => QueryValue("IsPlaying"))

(***************************************************************************)
(* C33.  Once the playback thread has run to its end, storing false to     *)
(* isPlaying, and Play() has returned, IsPlaying() is false: the store     *)
(* isPlaying = true that Play() makes after creating the thread does not   *)
(* come after the thread's last store.                                     *)
(***************************************************************************)
ThreadEnded == tpc = "finished" /\ threadExit \in {"ended", "stopped"}

C33_ThreadEndWins ==
    (NoCallInProgress /\ ThreadEnded) => ~QueryValue("IsPlaying")

(***************************************************************************)
(* C34.  Play() never assigns a new thread to playbackThread while the     *)
(* thread object there is still joinable: a playback that ended by itself  *)
(* is joined by the next Play() before the new thread is started, so       *)
(* std::terminate() is not called.                                         *)
(***************************************************************************)
C34_PlayJoinsFinishedThread ==
    (op = "Play" /\ ThreadEnded /\ ~isPlaying) => crash # "assign_joinable"

(***************************************************************************)
(* C35.  Stop() keeps the loaded file: the step on which Stop() returns    *)
(* true leaves currentFile, audioData and waveFormat as they were, and     *)
(* IsFileLoaded() true if it was true.                                     *)
(***************************************************************************)
StopReturns == op = "Stop" /\ cpc # "returned" /\ cpc' = "returned" /\ ret' = "true"

C35_StopKeepsFile ==
    [][ StopReturns =>
          /\ UNCHANGED <<currentFile, audioData, waveFormat>>
          /\ QueryValue("IsFileLoaded") => QueryValue("IsFileLoaded")' ]_vars

(***************************************************************************)
(* C36.  A device handle the playback thread has closed is not stored any  *)
(* more, and Stop() does not reset or close it again: when Stop() finds    *)
(* hWaveOut not null (line 616), the handle is that of an open device.     *)
(***************************************************************************)
StopClosesDevice == win32 /\ cpc = "stop_reset" /\ cpc' = "returned" /\ hWaveOut # "null"

C36_HandleClosedOnce == [][ StopClosesDevice => hWaveOut = "open" ]_vars

(***************************************************************************)
(* C37.  The chunk walk of LoadFile moves its read cursor strictly forward *)
(* on every iteration, whatever 32-bit size a chunk declares, so that the  *)
(* walk ends on every file.                                                *)
(***************************************************************************)
\* Every iteration of the walk from cursor that skips a chunk (line 304)
\* leaves the cursor further on than it found it.
RECURSIVE WalkAdvances(_, _, _)
WalkAdvances(bytes, cursor, fuel) ==
    IF fuel = 0 \/ cursor < 0 \/ cursor + 8 > Len(bytes)
    THEN TRUE
    ELSE IF SubSeq(bytes, cursor + 1, cursor + 4) = IdData
    THEN TRUE
    ELSE /\ SkipChunk(bytes, cursor) > cursor
         /\ WalkAdvances(bytes, SkipChunk(bytes, cursor), fuel - 1)

\* LoadFile is at the walk of line 294 on a file.
AtChunkWalk ==
    /\ cpc = "loadfile"
    /\ initialized
    /\ filePath \in WavFiles \cup OddWavFiles
    /\ ParsedImage[filePath].kind \notin {"not_riff", "short_header", "not_pcm"}

C37_WalkMovesForward ==
    AtChunkWalk => WalkAdvances(DiskImage[filePath], 36, MaxChunks)

(***************************************************************************)
(* C38.  playbackPosition is at most audioData.size() in every reachable   *)
(* state, so that the size the playback thread computes at line 474,       *)
(* audioData.size() - playbackPosition, does not wrap around.              *)
(***************************************************************************)
C38_PositionWithinBuffer == audioLoaded => playbackPosition <= audioSize

(***************************************************************************)
(* C39.  Playback always finishes: after Play() has returned true, the     *)
(* playback thread eventually ends, unless the session is paused, Stop()   *)
(* is called or the engine is destroyed; a Seek() made while playing does  *)
(* not keep the thread from ending.                                        *)
(***************************************************************************)
PlayStarted == cpc = "returned" /\ op = "Play" /\ ret = "true"

PlaybackOver ==
    \/ ~Running
    \/ isPaused
    \/ op = "Stop"
    \/ ~Alive

C39_PlaybackFinishes == PlayStarted ~> PlaybackOver

(***************************************************************************)
(* C40.  CreateDecoder(path) returns a decoder built by the factory        *)
(* registered for the path's extension, the extension and the registered   *)
(* format being compared without regard to case, whatever the case of the  *)
(* format at registration; it returns nullptr for a path without an        *)
(* extension and for an extension no factory is registered for.            *)
(***************************************************************************)
\* The factories registered under a format that equals the extension of
\* path when case is disregarded.
FactoriesFor(path) ==
    IF FindLastDot(path) = 0 - 1
    THEN {}
    ELSE { entry[2] : entry \in { e \in decoders : ToLowerCase(e[1]) = LookupFormat(path) } }

C40_DecoderByExtension ==
    decoderOp = "CreateDecoder" =>
        /\ FactoriesFor(decoderPath) = {} => decoder = "nullptr"
        /\ \A factory \in Factories :
              FactoriesFor(decoderPath) = {factory} => decoder = factory

====
